---------------------------- MODULE Spec2Model ----------------------------
(***************************************************************************)
(* A model of the bina static-analysis tool: the `check` command           *)
(* (bina/cli.py), the configuration loader (bina/core/config.py), the      *)
(* rule registry (bina/core/registry.py), the parallel scanner             *)
(* (bina/core/engine.py) and the per-file analyzer (bina/python/parser.py).*)
(* The rules (bina/python/rules) are summarised by their hit counts in the *)
(* scan (Spec) and modelled on syntax trees in SpecRules; SpecLoad,        *)
(* SpecGlob and SpecRegistry exercise the loader, the exclude patterns and *)
(* the registry on their own inputs.                                       *)
(*                                                                         *)
(* Python strings on which the code performs character operations (paths,  *)
(* glob patterns, YAML scalars that are upper-cased) are sequences of      *)
(* one-character strings.  Identifiers that are only compared (rule ids,   *)
(* enum members, function names) are TLA+ strings.                         *)
(***************************************************************************)
EXTENDS Integers, Sequences, FiniteSets, TLC

VARIABLES
    _rules,                 \* RuleRegistry._rules, in insertion order
    fs,                     \* the scanned tree: path -> source file content
    yaml_file,              \* the configuration file's state on disk
    baseline_file,          \* the baseline file: [exists, records]
    pc,                     \* position of the check command
    args,                   \* the command line of the current invocation
    config,                 \* check(): config = Config.load(config_path)
    baseline_fingerprints,  \* BaselineManager.baseline_fingerprints
    engine_manager,         \* Engine.baseline_manager is not None
    files_to_scan,          \* scan_path(): files_to_scan / tasks
    results,                \* executor.map: per task, the worker's return value
    consumed,               \* scan_path(): number of results already extended
    scan_findings,          \* scan_path(): the local aggregate `findings`
    findings,               \* check(): findings = engine.scan_path(path)
    invoked,                \* <<rule id, file>> of every rule callable called
    dispatched,             \* files handed to analyze_file_wrapper
    exit_code,              \* the process exit status of the last invocation
    raised,                 \* an exception left the command (traceback)
    registered,             \* the RuleRegistry.register calls made so far, in order
    ast_tree,               \* the module (ast.Module) a rule callable is applied to
    reported                \* the findings that rule callable returned

vars == <<_rules, fs, yaml_file, baseline_file, pc, args, config, baseline_fingerprints,
          engine_manager, files_to_scan, results, consumed, scan_findings,
          findings, invoked, dispatched, exit_code, raised, registered, ast_tree,
          reported>>

(***************************************************************************)
(* Bounds of the model.                                                    *)
(***************************************************************************)
\* the largest number of findings one rule produces on one file
MaxHits == 2

(***************************************************************************)
(* Strings as character sequences.                                         *)
(***************************************************************************)
Lower == <<"a","b","c","d","e","f","g","h","i","j","k","l","m",
           "n","o","p","q","r","s","t","u","v","w","x","y","z">>
Upper == <<"A","B","C","D","E","F","G","H","I","J","K","L","M",
           "N","O","P","Q","R","S","T","U","V","W","X","Y","Z">>

\* str.upper() on one character
UpperChar(c) ==
    IF \E i \in 1..Len(Lower) : Lower[i] = c
    THEN Upper[CHOOSE i \in 1..Len(Lower) : Lower[i] = c]
    ELSE c

\* str.upper()
StrUpper(s) == [i \in 1..Len(s) |-> UpperChar(s[i])]

\* str.endswith(suffix)
EndsWith(s, suffix) ==
    /\ Len(s) >= Len(suffix)
    /\ SubSeq(s, Len(s) - Len(suffix) + 1, Len(s)) = suffix

\* str.startswith(prefix)
StartsWith(s, prefix) ==
    /\ Len(s) >= Len(prefix)
    /\ SubSeq(s, 1, Len(prefix)) = prefix

\* str.split(sep) for a one-character separator
RECURSIVE SplitFrom(_, _, _)
SplitFrom(s, sep, cur) ==
    IF s = <<>> THEN <<cur>>
    ELSE IF Head(s) = sep THEN <<cur>> \o SplitFrom(Tail(s), sep, <<>>)
    ELSE SplitFrom(Tail(s), sep, Append(cur, Head(s)))

Split(s, sep) == SplitFrom(s, sep, <<>>)

(***************************************************************************)
(* bina/core/models.py                                                     *)
(***************************************************************************)
\* class Severity(str, Enum): the members
Severity == {"LOW", "MEDIUM", "HIGH"}

\* Severity.__members__: member name (a str) -> member
SeverityNames == {<<"L","O","W">>, <<"M","E","D","I","U","M">>, <<"H","I","G","H">>}

SeverityMember(name) ==
    CASE name = <<"L","O","W">> -> "LOW"
      [] name = <<"M","E","D","I","U","M">> -> "MEDIUM"
      [] name = <<"H","I","G","H">> -> "HIGH"

\* Optional[Severity]: the absent value
None == "None"

\* @dataclass Finding (the fields the pipeline reads)
Finding(rule_id, message, severity, file, line) ==
    [rule_id |-> rule_id, message |-> message, severity |-> severity,
     file |-> file, line |-> line]

(***************************************************************************)
(* Parsed YAML values, tagged by their Python type.                        *)
(***************************************************************************)
YStr(s)  == [t |-> "str", s |-> s]
YBool(b) == [t |-> "bool", b |-> b]
YInt(i)  == [t |-> "int", i |-> i]
YNull    == [t |-> "null"]
YList(l) == [t |-> "list", items |-> l]
YMap(m)  == [t |-> "map", m |-> m]

\* the dict {}
EmptyDict == <<>>

\* bool(v), and the truth value `v or {}` tests
Truthy(v) ==
    CASE v.t = "str"  -> v.s # <<>>
      [] v.t = "bool" -> v.b
      [] v.t = "int"  -> v.i # 0
      [] v.t = "null" -> FALSE
      [] v.t = "list" -> v.items # <<>>
      [] v.t = "map"  -> DOMAIN v.m # {}

\* hash(v) raises TypeError for a list or a dict
Unhashable(v) == v.t \in {"list", "map"}

(***************************************************************************)
(* bina/core/config.py                                                     *)
(***************************************************************************)
\* @dataclass RuleConfig
RuleConfig(severity, enabled) == [severity |-> severity, enabled |-> enabled]

\* @dataclass Config
Config(rules, exclude) == [rules |-> rules, exclude |-> exclude]

DefaultConfig == Config(EmptyDict, <<>>)

OFF == <<"O","F","F">>

\* Config.load, lines 35-48: one entry of data['rules'].
\* [raised, rc]: whether evaluating the entry raises, else its RuleConfig.
LoadRule(rule_data) ==
    CASE rule_data.t = "str" ->
            [raised |-> FALSE,
             rc |-> IF StrUpper(rule_data.s) = OFF
                        THEN RuleConfig(None, FALSE)
                    ELSE IF StrUpper(rule_data.s) \in SeverityNames
                        THEN RuleConfig(SeverityMember(StrUpper(rule_data.s)), TRUE)
                    ELSE RuleConfig(None, TRUE)]
      [] rule_data.t = "bool" ->
            [raised |-> FALSE, rc |-> RuleConfig(None, rule_data.b)]
      [] rule_data.t = "map" ->
            LET m == rule_data.m
                hasSev == "severity" \in DOMAIN m
                \* `rule_data['severity'] in Severity.__members__` hashes the value
                sevRaises == hasSev /\ Unhashable(m["severity"])
                known == /\ hasSev
                         /\ m["severity"].t = "str"
                         /\ m["severity"].s \in SeverityNames
                sev == IF known THEN SeverityMember(m["severity"].s) ELSE None
                en == IF "enabled" \in DOMAIN m THEN Truthy(m["enabled"]) ELSE TRUE
            IN  [raised |-> sevRaises, rc |-> RuleConfig(sev, en)]
      [] OTHER ->
            [raised |-> FALSE, rc |-> RuleConfig(None, TRUE)]

\* Config.load, lines 18-56.  file is the state of the file at `path`:
\* kind "missing" (os.path.exists is false), "unreadable" (open raises),
\* "invalid" (yaml.safe_load raises) or "doc" with the parsed value `data`.
\* [raised, config]: whether load raises, else the Config it returns.
Load(file) ==
    IF file.kind = "missing" THEN [raised |-> FALSE, config |-> DefaultConfig]
    ELSE IF file.kind \in {"unreadable", "invalid"}
        THEN [raised |-> FALSE, config |-> DefaultConfig]
    ELSE
        LET data == IF Truthy(file.data) THEN file.data ELSE YMap(EmptyDict)
        IN  IF data.t # "map"
            \* `'rules' in data` raises TypeError for an int or a bool; for a
            \* str or a list it is a substring / element test and then either
            \* data['rules'] (TypeError) or data.get (AttributeError) raises
            THEN [raised |-> TRUE, config |-> DefaultConfig]
            ELSE
                LET top == data.m
                    hasRules == "rules" \in DOMAIN top /\ top["rules"].t = "map"
                    rd == IF hasRules THEN top["rules"].m ELSE EmptyDict
                    rules == [id \in DOMAIN rd |-> LoadRule(rd[id]).rc]
                    ex0 == IF "exclude" \in DOMAIN top THEN top["exclude"] ELSE YList(<<>>)
                    exclude == IF ex0.t = "list"
                                   THEN [i \in 1..Len(ex0.items) |-> ex0.items[i].s]
                                   ELSE <<>>
                IN  IF \E id \in DOMAIN rd : LoadRule(rd[id]).raised
                    THEN [raised |-> TRUE, config |-> DefaultConfig]
                    ELSE [raised |-> FALSE, config |-> Config(rules, exclude)]

\* is_rule_enabled without the lookup of the rule's entry
is_rule_enabled_NoLookup(cfg, rule_id) == TRUE

\* Config.is_rule_enabled
is_rule_enabled(cfg, rule_id) ==
    IF rule_id \in DOMAIN cfg.rules THEN cfg.rules[rule_id].enabled ELSE TRUE

\* Config.get_rule_severity
get_rule_severity(cfg, rule_id, default_severity) ==
    IF rule_id \in DOMAIN cfg.rules /\ cfg.rules[rule_id].severity # None
    THEN cfg.rules[rule_id].severity
    ELSE default_severity

\* fnmatch.fnmatchcase(name, pat) for patterns made of literals, `*` and `?`:
\* `*` matches any run of characters ('/' included), `?` any one character,
\* and the whole of name must match
RECURSIVE fnmatch(_, _)
fnmatch(name, pat) ==
    IF pat = <<>> THEN name = <<>>
    ELSE IF Head(pat) = "*"
        THEN fnmatch(name, Tail(pat)) \/ (name # <<>> /\ fnmatch(Tail(name), pat))
    ELSE IF name = <<>> THEN FALSE
    ELSE IF Head(pat) = "?" THEN fnmatch(Tail(name), Tail(pat))
    ELSE Head(name) = Head(pat) /\ fnmatch(Tail(name), Tail(pat))

\* Config.is_path_excluded
is_path_excluded(cfg, path) ==
    \E i \in 1..Len(cfg.exclude) : fnmatch(path, cfg.exclude[i])

(***************************************************************************)
(* bina/core/registry.py                                                   *)
(***************************************************************************)
\* @dataclass RuleDefinition
RuleDefinition(id, severity, language, check_fn) ==
    [id |-> id, severity |-> severity, language |-> language, check_fn |-> check_fn]

\* a registry in which the first registration of an id stays
register_KeepFirst(reg, rule) ==
    IF \E i \in 1..Len(reg) : reg[i].id = rule.id THEN reg ELSE Append(reg, rule)

\* RuleRegistry.register: cls._rules[id] = RuleDefinition(...).  A dict keeps
\* the position of a key that is assigned again and appends a new key.
register(reg, rule) ==
    IF \E i \in 1..Len(reg) : reg[i].id = rule.id
    THEN [i \in 1..Len(reg) |-> IF reg[i].id = rule.id THEN rule ELSE reg[i]]
    ELSE Append(reg, rule)

\* RuleRegistry.get_rules_for_language
get_rules_for_language(reg, language) ==
    LET IsLang(r) == r.language = language
    IN  SelectSeq(reg, IsLang)

\* The @RuleRegistry.register decorators that run when the rule modules are
\* imported: best_practices.py (B001, B002, B003) and naming.py (N001).
ImportedRules ==
    register(register(register(register(<<>>,
        RuleDefinition("B001", "MEDIUM", "python", "check_mutable_defaults")),
        RuleDefinition("B002", "HIGH", "python", "check_silent_exception")),
        RuleDefinition("B003", "MEDIUM", "python", "check_resource_cleanup")),
        RuleDefinition("N001", "LOW", "python", "check_misleading_names"))

(***************************************************************************)
(* Exceptions.  An outcome carries the class of the exception that left    *)
(* the call, or NoExc.                                                     *)
(***************************************************************************)
NoExc == "none"

\* issubclass(exc, cls) for the classes the pipeline raises and catches
IsInstance(exc, cls) ==
    CASE cls = "Exception" ->
            exc \in {"TypeError", "RecursionError", "OSError",
                     "UnicodeDecodeError", "SyntaxError"}
      [] cls = "SyntaxError" -> exc = "SyntaxError"
      [] OTHER -> exc = cls

(***************************************************************************)
(* bina/python/rules: the rule callables, on an abstract syntax tree       *)
(* summarised by what each rule finds in it.  tree.deep: the tree is       *)
(* nested deeper than the interpreter's recursion limit allows the         *)
(* recursive ast.NodeVisitor to descend (ast.walk is iterative).           *)
(***************************************************************************)
Tree(b001, b002, b003, deep) ==
    [B001 |-> b001, B002 |-> b002, B003 |-> b003, deep |-> deep]

\* the findings a rule appends: one per hit, at successive lines
Hits(n, rule_id, message, severity, file) ==
    [k \in 1..n |-> Finding(rule_id, message, severity, file, k)]

\* rule.check_fn(context): [exc, results]
CheckFn(check_fn, context) ==
    CASE check_fn = "check_mutable_defaults" ->
            [exc |-> NoExc,
             results |-> Hits(context.tree.B001, "B001",
                              "Mutable default argument detected.", "MEDIUM",
                              context.filename)]
      [] check_fn = "check_silent_exception" ->
            [exc |-> NoExc,
             results |-> Hits(context.tree.B002, "B002",
                              "Silent exception swallowing.", "HIGH",
                              context.filename)]
      [] check_fn = "check_resource_cleanup" ->
            IF context.tree.deep
            THEN [exc |-> "RecursionError", results |-> <<>>]
            ELSE [exc |-> NoExc,
                  results |-> Hits(context.tree.B003, "B003",
                                   "Resource usage without context manager.", "MEDIUM",
                                   context.filename)]
      \* check_misleading_names(tree, filename) is called with one argument
      [] check_fn = "check_misleading_names" ->
            [exc |-> "TypeError", results |-> <<>>]

(***************************************************************************)
(* bina/python/parser.py                                                   *)
(***************************************************************************)
\* a handler that catches syntax errors only
HandlerClass_SyntaxOnly == "SyntaxError"

\* the class the inner handler (line 42) catches
RuleHandlerClass == "Exception"

\* the class the last outer handler (line 52) catches
FileHandlerClass == "Exception"

\* one iteration that leaves the findings' severity as the rule set it
RunRule_NoOverride(rule, context, cfg) ==
    IF ~is_rule_enabled(cfg, rule.id)
    THEN [exc |-> NoExc, findings |-> <<>>, called |-> FALSE]
    ELSE
        LET out == CheckFn(rule.check_fn, context)
        IN  IF out.exc # NoExc
            THEN [exc |-> NoExc, findings |-> <<>>, called |-> TRUE]
            ELSE [exc |-> NoExc, findings |-> out.results, called |-> TRUE]

\* PythonAnalyzer.analyze, lines 23-45: one iteration of `for rule in rules`.
\* [exc, findings, called]: the exception leaving the iteration, the findings
\* it extends the list with, and whether rule.check_fn was called.
RunRule(rule, context, cfg) ==
    IF ~is_rule_enabled(cfg, rule.id)
    THEN [exc |-> NoExc, findings |-> <<>>, called |-> FALSE]
    ELSE
        LET out == CheckFn(rule.check_fn, context)
            severity == get_rule_severity(cfg, rule.id, rule.severity)
        IN  IF out.exc # NoExc
            THEN [exc |-> IF IsInstance(out.exc, RuleHandlerClass) THEN NoExc ELSE out.exc,
                  findings |-> <<>>, called |-> TRUE]
            ELSE [exc |-> NoExc,
                  findings |-> [i \in 1..Len(out.results) |->
                                   [out.results[i] EXCEPT !.severity = severity]],
                  called |-> TRUE]

\* the loop `for rule in rules`, from rule i on; an exception ends it
RECURSIVE RunRules(_, _, _, _)
RunRules(rules, i, context, cfg) ==
    IF i > Len(rules) THEN [exc |-> NoExc, findings |-> <<>>, called |-> {}]
    ELSE
        LET one == RunRule(rules[i], context, cfg)
        IN  IF one.exc # NoExc
            THEN [exc |-> one.exc, findings |-> <<>>, called |-> {rules[i].id}]
            ELSE
                LET rest == RunRules(rules, i + 1, context, cfg)
                IN  [exc |-> rest.exc,
                     findings |-> one.findings \o rest.findings,
                     called |-> (IF one.called THEN {rules[i].id} ELSE {}) \cup rest.called]

\* PythonAnalyzer.analyze(file_path, config): [exc, findings, called].
\* source.kind: "unreadable" (open raises OSError), "undecodable" (read raises
\* UnicodeDecodeError), "syntaxerror" (ast.parse raises SyntaxError), "ok".
analyze(reg, file_path, source, cfg) ==
    LET body ==
            CASE source.kind = "unreadable" ->
                    [exc |-> "OSError", findings |-> <<>>, called |-> {}]
              [] source.kind = "undecodable" ->
                    [exc |-> "UnicodeDecodeError", findings |-> <<>>, called |-> {}]
              [] source.kind = "syntaxerror" ->
                    [exc |-> "SyntaxError", findings |-> <<>>, called |-> {}]
              [] source.kind = "ok" ->
                    RunRules(get_rules_for_language(reg, "python"), 1,
                             [filename |-> file_path, tree |-> source.tree], cfg)
    IN  IF body.exc = NoExc THEN body
        ELSE IF IsInstance(body.exc, "SyntaxError") \/ IsInstance(body.exc, FileHandlerClass)
            THEN [exc |-> NoExc, findings |-> <<>>, called |-> body.called]
        ELSE [exc |-> body.exc, findings |-> <<>>, called |-> body.called]

(***************************************************************************)
(* The baseline store (bina/core/baseline.py).                             *)
(***************************************************************************)
\* fingerprint of a finding
Fingerprint(f) == <<f.rule_id, f.file, f.line, f.message>>

\* BaselineManager.load: the fingerprints of the stored records;
\* a missing file is an empty baseline
BaselineLoad(file) ==
    IF file.exists
    THEN {Fingerprint(file.records[i]) : i \in 1..Len(file.records)}
    ELSE {}

\* BaselineManager.save: the file holds the findings' full records
BaselineSave(fnds) == [exists |-> TRUE, records |-> fnds]

\* BaselineManager.filter
BaselineFilter(fingerprints, fnds) ==
    LET IsNew(f) == Fingerprint(f) \notin fingerprints
    IN  SelectSeq(fnds, IsNew)

(***************************************************************************)
(* The file system under the scanned path.                                 *)
(***************************************************************************)
DirD  == <<"d">>
FileA == <<"d","/","a",".","p","y">>
FileB == <<"d","/","b",".","p","y">>
FileH == <<"d","/",".","h",".","p","y">>
FileN == <<"d","/","n",".","t","x","t">>

\* os.walk(DirD): the files in the order the directory lists them
Listing == <<FileA, FileH, FileB, FileN>>

Ok(tree) == [kind |-> "ok", tree |-> tree]
Broken(kind) == [kind |-> kind, tree |-> Tree(0, 0, 0, FALSE)]

SourcesA ==
    {Broken(k) : k \in {"unreadable", "undecodable", "syntaxerror"}}
    \cup {Ok(Tree(h, 1, 1, deep)) : h \in 0..MaxHits, deep \in BOOLEAN}

SourcesB == {Ok(Tree(0, 1, 1, FALSE)), Broken("unreadable")}

FileSystems ==
    {[p \in {FileA, FileB, FileH, FileN} |->
        CASE p = FileA -> a
          [] p = FileB -> b
          [] p = FileH -> Ok(Tree(1, 0, 0, FALSE))
          [] p = FileN -> Ok(Tree(1, 1, 1, FALSE))] : a \in SourcesA, b \in SourcesB}

isfile(path) == path \in DOMAIN fs
isdir(path) == path = DirD

(***************************************************************************)
(* bina/core/engine.py                                                     *)
(***************************************************************************)
\* line 37: a component of the path starts with '.' and is not '.' or '..'
IsHidden(full_path) ==
    LET parts == Split(full_path, "/")
    IN  \E i \in 1..Len(parts) :
            /\ StartsWith(parts[i], <<".">>)
            /\ parts[i] \notin {<<".">>, <<".", ".">>}

\* collection that applies the exclusion only to walked files
CollectFiles_WalkOnly(cfg, path) ==
    IF path \in DOMAIN fs
    THEN <<path>>
    ELSE IF path = <<"d">>
        THEN LET Keep(p) == ~IsHidden(p) /\ ~is_path_excluded(cfg, p)
             IN  SelectSeq(Listing, Keep)
    ELSE <<>>

\* Engine.scan_path, lines 26-43: the files collected for analysis
CollectFiles(cfg, path) ==
    IF isfile(path)
    THEN IF ~is_path_excluded(cfg, path) THEN <<path>> ELSE <<>>
    ELSE IF isdir(path)
        THEN LET Keep(p) == ~IsHidden(p) /\ ~is_path_excluded(cfg, p)
             IN  SelectSeq(Listing, Keep)
    ELSE <<>>

\* analyze_file_wrapper(args): [exc, findings, called]
analyze_file_wrapper(reg, file_path, cfg) ==
    IF EndsWith(file_path, <<".", "p", "y">>)
    THEN analyze(reg, file_path, fs[file_path], cfg)
    ELSE [exc |-> NoExc, findings |-> <<>>, called |-> {}]

\* a return that skips the baseline filter
ScanResult_Unfiltered(manager, fingerprints, aggregate) == aggregate

\* Engine.scan_path, lines 57-61: the value returned
ScanResult(manager, fingerprints, aggregate) ==
    IF manager THEN BaselineFilter(fingerprints, aggregate) ELSE aggregate

(***************************************************************************)
(* Configuration files.                                                    *)
(***************************************************************************)
Missing == [kind |-> "missing", data |-> YNull]
Unreadable == [kind |-> "unreadable", data |-> YNull]
Invalid == [kind |-> "invalid", data |-> YNull]
Doc(data) == [kind |-> "doc", data |-> data]

\* rules: {B001: "off", B002: "low"}   exclude: ["d/a*"]
DocOffLow ==
    Doc(YMap([rules |-> YMap([B001 |-> YStr(<<"o","f","f">>),
                              B002 |-> YStr(<<"l","o","w">>)]),
              exclude |-> YList(<<YStr(<<"d","/","a","*">>)>>)]))

\* rules: {B003: {severity: HIGH}, B002: false}   exclude: ["*.h.py"]
DocMapping ==
    Doc(YMap([rules |-> YMap([B003 |-> YMap([severity |-> YStr(<<"H","I","G","H">>)]),
                              B002 |-> YBool(FALSE)]),
              exclude |-> YList(<<YStr(<<"*",".","h",".","p","y">>)>>)]))

\* a YAML document whose top-level value is a sequence: [a]
DocTopList == Doc(YList(<<YStr(<<"a">>)>>))

MainDocs == {Missing, DocOffLow, DocMapping, DocTopList}

(***************************************************************************)
(* The check command (bina/cli.py) and the scan it runs.                   *)
(***************************************************************************)
Paths == {DirD, FileA, FileH}

Args == [path : Paths, json_output : BOOLEAN,
         generate_baseline : BOOLEAN, show_baseline : BOOLEAN]

\* no module is under analysis by a single rule
NoTree == [t |-> "Module", body |-> <<>>]

Pending == [done |-> FALSE, exc |-> NoExc, findings |-> <<>>]

Init ==
    /\ _rules = ImportedRules
    /\ fs \in FileSystems
    /\ yaml_file \in MainDocs
    /\ baseline_file = [exists |-> FALSE, records |-> <<>>]
    /\ pc = "idle"
    /\ args = [path |-> DirD, json_output |-> FALSE,
               generate_baseline |-> FALSE, show_baseline |-> FALSE]
    /\ config = DefaultConfig
    /\ baseline_fingerprints = {}
    /\ engine_manager = FALSE
    /\ files_to_scan = <<>>
    /\ results = <<>>
    /\ consumed = 0
    /\ scan_findings = <<>>
    /\ findings = <<>>
    /\ invoked = {}
    /\ dispatched = {}
    /\ exit_code = 0
    /\ raised = FALSE
    /\ registered = ImportedRules
    /\ ast_tree = NoTree
    /\ reported = <<>>

\* check(), lines 24-56: load the configuration and the baseline, build the
\* engine.  An exception leaving Config.load ends the process with a traceback.
Check_Start ==
    /\ pc \in {"idle", "exited"}
    /\ \E a \in Args :
        LET ld == Load(yaml_file)
        IN  /\ args' = a
            /\ config' = IF ld.raised THEN DefaultConfig ELSE ld.config
            /\ baseline_fingerprints' =
                   IF ~ld.raised /\ ~a.generate_baseline
                   THEN BaselineLoad(baseline_file) ELSE {}
            /\ engine_manager' =
                   (~ld.raised /\ ~a.show_baseline /\ ~a.generate_baseline)
            /\ pc' = IF ld.raised THEN "exited" ELSE "scan"
            /\ raised' = ld.raised
            /\ exit_code' = IF ld.raised THEN 1 ELSE 0
    /\ files_to_scan' = <<>>
    /\ results' = <<>>
    /\ consumed' = 0
    /\ scan_findings' = <<>>
    /\ findings' = <<>>
    /\ invoked' = {}
    /\ dispatched' = {}
    /\ UNCHANGED <<registered, ast_tree, reported,
                   _rules, fs, yaml_file, baseline_file>>

\* Engine.scan_path, lines 25-52: collect the files and submit one task each
Scan_Collect ==
    /\ pc = "scan"
    /\ files_to_scan' = CollectFiles(config, args.path)
    /\ results' = [i \in 1..Len(files_to_scan') |-> Pending]
    /\ dispatched' = {files_to_scan'[i] : i \in 1..Len(files_to_scan')}
    /\ pc' = "pool"
    /\ UNCHANGED <<registered, ast_tree, reported,
                   _rules, fs, yaml_file, baseline_file, args, config,
                   baseline_fingerprints, engine_manager, consumed,
                   scan_findings, findings, invoked, exit_code, raised>>

\* a pool worker runs analyze_file_wrapper on task i
Worker(i) ==
    /\ pc = "pool"
    /\ i \in 1..Len(files_to_scan)
    /\ ~results[i].done
    /\ LET r == analyze_file_wrapper(_rules, files_to_scan[i], config)
       IN  /\ results' = [results EXCEPT
                             ![i] = [done |-> TRUE, exc |-> r.exc, findings |-> r.findings]]
           /\ invoked' = invoked \cup {<<id, files_to_scan[i]>> : id \in r.called}
    /\ UNCHANGED <<registered, ast_tree, reported,
                   _rules, fs, yaml_file, baseline_file, pc, args, config,
                   baseline_fingerprints, engine_manager, files_to_scan, consumed,
                   scan_findings, findings, dispatched, exit_code, raised>>

\* a scan that filters each result against the baseline while gathering
Scan_Extend_Filtering ==
    /\ pc = "pool"
    /\ consumed < Len(files_to_scan)
    /\ results[consumed + 1].done
    /\ scan_findings' = scan_findings \o
           ScanResult(engine_manager, baseline_fingerprints, results[consumed + 1].findings)
    /\ consumed' = consumed + 1
    /\ UNCHANGED <<registered, ast_tree, reported,
                   _rules, fs, yaml_file, baseline_file, pc, args, config,
                   baseline_fingerprints, engine_manager, files_to_scan, results,
                   findings, invoked, dispatched, exit_code, raised>>

\* a scan that puts each result in front of those gathered before it
Scan_Extend_Prepending ==
    /\ pc = "pool"
    /\ consumed < Len(files_to_scan)
    /\ results[consumed + 1].done
    /\ scan_findings' = results[consumed + 1].findings \o scan_findings
    /\ consumed' = consumed + 1
    /\ UNCHANGED <<registered, ast_tree, reported,
                   _rules, fs, yaml_file, baseline_file, pc, args, config,
                   baseline_fingerprints, engine_manager, files_to_scan, results,
                   findings, invoked, dispatched, exit_code, raised>>

\* Engine.scan_path, lines 54-55: `for res in results: findings.extend(res)`;
\* executor.map yields the results in task order and re-raises a worker's
\* exception, which then leaves scan_path and check
Scan_Extend ==
    /\ pc = "pool"
    /\ consumed < Len(files_to_scan)
    /\ results[consumed + 1].done
    /\ LET res == results[consumed + 1]
       IN  /\ scan_findings' = IF res.exc = NoExc
                                   THEN scan_findings \o res.findings
                                   ELSE scan_findings
           /\ consumed' = IF res.exc = NoExc THEN consumed + 1 ELSE consumed
           /\ pc' = IF res.exc = NoExc THEN pc ELSE "exited"
           /\ raised' = (res.exc # NoExc)
           /\ exit_code' = IF res.exc = NoExc THEN exit_code ELSE 1
    /\ UNCHANGED <<registered, ast_tree, reported,
                   _rules, fs, yaml_file, baseline_file, args, config,
                   baseline_fingerprints, engine_manager, files_to_scan, results,
                   findings, invoked, dispatched>>

\* Engine.scan_path, lines 57-61, and check(), line 58
Scan_Return ==
    /\ pc = "pool"
    /\ consumed = Len(files_to_scan)
    /\ findings' = ScanResult(engine_manager, baseline_fingerprints, scan_findings)
    /\ pc' = "report"
    /\ UNCHANGED <<registered, ast_tree, reported,
                   _rules, fs, yaml_file, baseline_file, args, config,
                   baseline_fingerprints, engine_manager, files_to_scan, results,
                   consumed, scan_findings, invoked, dispatched, exit_code, raised>>

\* the exit status of check(), lines 66-95, after the findings are printed
ReportExitCode(json_output, fnds) ==
    IF json_output THEN 0
    ELSE IF fnds = <<>> THEN 0
    ELSE 1

\* check(), lines 60-64: --generate-baseline saves and returns
Check_GenerateBaseline ==
    /\ pc = "report"
    /\ args.generate_baseline
    /\ baseline_file' = BaselineSave(findings)
    /\ exit_code' = 0
    /\ pc' = "exited"
    /\ UNCHANGED <<registered, ast_tree, reported,
                   _rules, fs, yaml_file, args, config, baseline_fingerprints,
                   engine_manager, files_to_scan, results, consumed, scan_findings,
                   findings, invoked, dispatched, raised>>

\* check(), lines 66-95: print the findings as JSON or as a table
Check_Report ==
    /\ pc = "report"
    /\ ~args.generate_baseline
    /\ exit_code' = ReportExitCode(args.json_output, findings)
    /\ pc' = "exited"
    /\ UNCHANGED <<registered, ast_tree, reported,
                   _rules, fs, yaml_file, baseline_file, args, config,
                   baseline_fingerprints, engine_manager, files_to_scan, results,
                   consumed, scan_findings, findings, invoked, dispatched, raised>>

Next ==
    \/ Check_Start
    \/ Scan_Collect
    \/ \E i \in 1..Len(files_to_scan) : Worker(i)
    \/ Scan_Extend
    \/ Scan_Return
    \/ Check_GenerateBaseline
    \/ Check_Report

Spec == Init /\ [][Next]_vars

(***************************************************************************)
(* Properties.                                                             *)
(***************************************************************************)
Range(seq) == {seq[i] : i \in 1..Len(seq)}

PythonRules == get_rules_for_language(_rules, "python")

\* the findings of a sequence that carry rule id `id`
OfRule(fnds, id) ==
    LET Has(f) == f.rule_id = id
    IN  SelectSeq(fnds, Has)

Fingerprints(fnds) == [k \in 1..Len(fnds) |-> Fingerprint(fnds[k])]

\* task i is an analyzed python file that was read and parsed
Parsed(i) ==
    /\ results[i].done
    /\ EndsWith(files_to_scan[i], <<".", "p", "y">>)
    /\ fs[files_to_scan[i]].kind = "ok"

\* C1: in PythonAnalyzer.analyze, on a file that parses, an enabled rule whose
\* callable raises contributes no finding, analyze does not raise, and every
\* other enabled rule is invoked and all of its findings are in the result.
C1_RuleIsolation ==
    \A i \in 1..Len(results) :
        Parsed(i) =>
            LET f == files_to_scan[i]
                context == [filename |-> f, tree |-> fs[f].tree]
            IN  /\ results[i].exc = NoExc
                /\ \A j \in 1..Len(PythonRules) :
                       is_rule_enabled(config, PythonRules[j].id) =>
                           LET out == CheckFn(PythonRules[j].check_fn, context)
                               got == OfRule(results[i].findings, PythonRules[j].id)
                           IN  /\ <<PythonRules[j].id, f>> \in invoked
                               /\ IF out.exc # NoExc
                                  THEN got = <<>>
                                  ELSE Fingerprints(got) = Fingerprints(out.results)

\* C1 witness: a parsed file on which two enabled rules raise (B003 on a deep
\* tree, N001) and B001 and B002 still deliver their findings
C1_Witness ==
    \E i \in 1..Len(results) :
        /\ Parsed(i)
        /\ fs[files_to_scan[i]].tree.deep
        /\ fs[files_to_scan[i]].tree.B001 = MaxHits
        /\ is_rule_enabled(config, "B003")
        /\ is_rule_enabled(config, "N001")
        /\ Len(OfRule(results[i].findings, "B001")) = MaxHits
        /\ Len(OfRule(results[i].findings, "B002")) = 1
        /\ OfRule(results[i].findings, "B003") = <<>>

\* rule id R has an entry in the loaded configuration that disables it
Disabled(R) == R \in DOMAIN config.rules /\ ~config.rules[R].enabled

AllResultFindings ==
    UNION {Range(results[i].findings) : i \in 1..Len(results)}

\* C2: a rule disabled in the configuration is never invoked and no finding
\* with its rule id is in any worker's result, the aggregate or the output.
C2_DisabledRuleSilent ==
    \A R \in {_rules[j].id : j \in 1..Len(_rules)} :
        Disabled(R) =>
            /\ \A x \in invoked : x[1] # R
            /\ \A f \in AllResultFindings \cup Range(scan_findings) \cup Range(findings) :
                   f.rule_id # R

\* C2 witness: B002 is disabled, a.py holds a B002 hit and was analyzed, and
\* the finished scan reports other findings
C2_Witness ==
    /\ pc = "exited"
    /\ Disabled("B002")
    /\ FileA \in dispatched
    /\ fs[FileA].kind = "ok"
    /\ fs[FileA].tree.B002 > 0
    /\ \E f \in Range(findings) : f.file = FileA

\* the descriptor registered under a rule id
Descriptor(id) == _rules[CHOOSE j \in 1..Len(_rules) : _rules[j].id = id]

\* C3: every finding of a worker's result, and so of the scan's output, has
\* the severity config.get_rule_severity(rule id, descriptor default).
C3_EffectiveSeverity ==
    \A f \in AllResultFindings \cup Range(scan_findings) \cup Range(findings) :
        f.severity = get_rule_severity(config, f.rule_id, Descriptor(f.rule_id).severity)

\* C3 witness: the output holds a B002 finding with the configured override
\* LOW (default HIGH) beside a finding that keeps its descriptor's default
C3_Witness ==
    /\ pc = "exited"
    /\ "B002" \in DOMAIN config.rules
    /\ config.rules["B002"].severity = "LOW"
    /\ \E f \in Range(findings) : f.rule_id = "B002" /\ f.severity = "LOW"
    /\ \E f \in Range(findings) : f.rule_id = "B003" /\ f.severity = "MEDIUM"

\* the scan raised: an exception left scan_path (not Config.load)
ScanRaised == raised /\ dispatched # {}

\* task i is a python file whose reading or parsing fails
Failing(i) ==
    /\ EndsWith(files_to_scan[i], <<".", "p", "y">>)
    /\ fs[files_to_scan[i]].kind # "ok"

\* the concatenation of the first n results
RECURSIVE Concat(_, _)
Concat(res, n) == IF n = 0 THEN <<>> ELSE Concat(res, n - 1) \o res[n].findings

\* C4: a file whose reading or parsing fails contributes an empty finding
\* sequence; no failure leaves scan_path; while tasks are outstanding the scan
\* can proceed, and what it returns holds the findings of every other file.
C4_BadFileIsolated ==
    /\ ~ScanRaised
    /\ \A i \in 1..Len(results) :
           (results[i].done /\ Failing(i)) =>
               results[i].exc = NoExc /\ results[i].findings = <<>>
    /\ pc = "pool" => ENABLED (Scan_Extend \/ Scan_Return \/ \E i \in 1..Len(files_to_scan) : Worker(i))
    /\ pc = "report" =>
           /\ \A i \in 1..Len(results) : results[i].done
           /\ scan_findings = Concat(results, Len(results))
           /\ \A i \in 1..Len(results) :
                  ~Failing(i) =>
                      results[i].findings =
                          analyze_file_wrapper(_rules, files_to_scan[i], config).findings

\* C4 witness: the scan returned; a.py could not be read or parsed and b.py's
\* findings are in the aggregate
C4_Witness ==
    /\ pc = "report"
    /\ \E i \in 1..Len(files_to_scan) : files_to_scan[i] = FileA /\ Failing(i)
    /\ \E f \in Range(scan_findings) : f.file = FileB

AllFindings == AllResultFindings \cup Range(scan_findings) \cup Range(findings)

\* C5: a path for which config.is_path_excluded holds is never dispatched to
\* a worker, no rule is invoked on it and no finding carries it as its file,
\* whether it is the scan path itself or a file found by the walk.
C5_ExcludedNeverScanned ==
    \A p \in DOMAIN fs :
        is_path_excluded(config, p) =>
            /\ p \notin dispatched
            /\ \A x \in invoked : x[2] # p
            /\ \A f \in AllFindings : f.file # p

\* C5 witness: the walk of d met the excluded a.py, which holds hits, and the
\* finished scan reports b.py's findings only
C5_Witness ==
    /\ pc = "exited"
    /\ args.path = DirD
    /\ is_path_excluded(config, FileA)
    /\ fs[FileA].kind = "ok"
    /\ fs[FileA].tree.B002 > 0
    /\ FileB \in dispatched
    /\ findings # <<>>

\* C5, the direct case: the scan path is itself an excluded file with hits,
\* and the finished scan dispatched nothing
C5_DirectCase ==
    /\ pc = "exited"
    /\ ~raised
    /\ args.path = FileH
    /\ is_path_excluded(config, FileH)
    /\ dispatched = {}
    /\ findings = <<>>

\* the scan of the current invocation reproduces the findings the baseline
\* file was generated from: same rule_id, file, line, message, in order
ReproducesBaseline ==
    /\ baseline_file.exists
    /\ Fingerprints(scan_findings) = Fingerprints(baseline_file.records)

\* C6: baseline idempotence: a scan that runs with the generated baseline
\* loaded and reproduces the findings it was generated from returns nothing.
C6_BaselineIdempotence ==
    (pc \in {"report", "exited"} /\ engine_manager /\ ReproducesBaseline) =>
        findings = <<>>

\* C6 witness: a baseline was generated from a non-empty finding sequence, a
\* later filtered scan reproduced it, and its output is empty
C6_Witness ==
    /\ pc = "report"
    /\ engine_manager
    /\ ReproducesBaseline
    /\ scan_findings # <<>>
    /\ findings = <<>>

\* the findings of the aggregate whose fingerprint no record of the baseline
\* file carries
NotInBaselineFile ==
    LET IsNew(f) ==
            \A k \in 1..Len(baseline_file.records) :
                Fingerprint(baseline_file.records[k]) # Fingerprint(f)
    IN  SelectSeq(scan_findings, IsNew)

\* the three cases of the check command's baseline handling, at its exit
GenerateCase ==
    args.generate_baseline =>
        /\ baseline_file = [exists |-> TRUE, records |-> scan_findings]
        /\ exit_code = 0

ShowCase ==
    (~args.generate_baseline /\ args.show_baseline) => findings = scan_findings

FilterCase ==
    (~args.generate_baseline /\ ~args.show_baseline) => findings = NotInBaselineFile

\* C7: when check exits: with --generate-baseline the baseline file holds the
\* unfiltered findings of this scan and the exit status is success; with
\* --show-baseline the reported findings are unfiltered; with neither flag the
\* findings whose fingerprint is in the baseline file are removed.
C7_BaselineHandling ==
    pc = "exited" => GenerateCase /\ ShowCase /\ FilterCase

\* C7, for the invocations whose configuration loaded: the three cases hold
C7_HoldsOnceLoaded ==
    (pc = "exited" /\ ~raised) => GenerateCase /\ ShowCase /\ FilterCase

\* C7, reached: --generate-baseline overwrote an earlier, different baseline
C7_GenerateReached ==
    /\ pc = "exited"
    /\ ~raised
    /\ args.generate_baseline
    /\ baseline_file.records # <<>>
    /\ baseline_file.records = scan_findings

\* C8: a run of check without --generate-baseline that reaches its report
\* exits with 0 when no findings remain and with non-zero when one remains,
\* in table mode and in --json mode.
C8_ExitCode ==
    (pc = "exited" /\ ~raised /\ ~args.generate_baseline) =>
        (exit_code = 0 <=> findings = <<>>)

\* C8, table mode alone: the exit status tells whether findings remain
C8_TableMode ==
    (pc = "exited" /\ ~raised /\ ~args.generate_baseline /\ ~args.json_output) =>
        (exit_code = 0 <=> findings = <<>>)

(***************************************************************************)
(* Config.load on its own, over a family of configuration files.           *)
(***************************************************************************)
StrOFF    == <<"O","F","F">>
StrOff    == <<"o","f","f">>
StrLOW    == <<"L","O","W">>
StrMEDIUM == <<"M","E","D","I","U","M">>
StrHIGH   == <<"H","I","G","H">>
StrHigh   == <<"h","i","g","h">>
StrBOGUS  == <<"B","O","G","U","S">>
StrNo     == <<"n","o">>

\* per-rule values in the string form
StringValues ==
    {YStr(x) : x \in {StrOFF, StrOff, StrLOW, StrMEDIUM, StrHIGH, StrHigh, StrBOGUS, <<>>}}

\* values of a mapping's severity key
SeverityValues ==
    {YStr(StrHIGH), YStr(StrLOW), YStr(StrHigh), YStr(StrBOGUS), YInt(5), YNull,
     YList(<<YStr(StrHIGH)>>)}

\* values of a mapping's enabled key
EnabledValues == {YBool(TRUE), YBool(FALSE), YInt(0), YStr(StrNo)}

\* per-rule values in the mapping form
MappingValues ==
    {YMap(EmptyDict)}
    \cup {YMap([severity |-> sv]) : sv \in SeverityValues}
    \cup {YMap([enabled |-> en]) : en \in EnabledValues}
    \cup {YMap([severity |-> sv, enabled |-> en]) : sv \in SeverityValues, en \in EnabledValues}

RuleValues ==
    StringValues \cup MappingValues \cup {YBool(TRUE), YBool(FALSE), YNull, YInt(5)}

\* values of the top-level exclude key: a list of globs, a scalar
ExcludeValues == {YList(<<YStr(<<"d","/","a","*">>)>>), YStr(<<"d","/","a","*">>)}

\* documents whose top-level value is a mapping
MappingDocs ==
    {Doc(YMap([rules |-> YMap([B001 |-> v])])) : v \in RuleValues}
    \cup {Doc(YMap([rules |-> YMap([B001 |-> v]), exclude |-> ex])) :
             v \in RuleValues, ex \in ExcludeValues}
    \cup {Doc(YMap([rules |-> YList(<<YStr(StrHIGH)>>)])), Doc(YMap([exclude |-> YNull]))}

\* documents whose top-level value is a sequence or a scalar
NonMappingDocs ==
    {Doc(v) : v \in {YList(<<YStr(<<"a">>)>>), YList(<<>>), YStr(<<"a">>), YStr(<<>>),
                     YInt(5), YInt(0), YBool(TRUE), YBool(FALSE), YNull}}

LoadDocs == MainDocs \cup {Missing, Unreadable, Invalid} \cup MappingDocs \cup NonMappingDocs

InitLoad ==
    /\ _rules = ImportedRules
    \* the scanned tree plays no part in the load: one file system
    /\ fs \in {f \in FileSystems : f[FileA].kind = "syntaxerror" /\ f[FileB].kind = "ok"}
    /\ yaml_file \in LoadDocs
    /\ baseline_file = [exists |-> FALSE, records |-> <<>>]
    /\ pc = "idle"
    /\ args = [path |-> DirD, json_output |-> FALSE,
               generate_baseline |-> FALSE, show_baseline |-> FALSE]
    /\ config = DefaultConfig
    /\ baseline_fingerprints = {}
    /\ engine_manager = FALSE
    /\ files_to_scan = <<>>
    /\ results = <<>>
    /\ consumed = 0
    /\ scan_findings = <<>>
    /\ findings = <<>>
    /\ invoked = {}
    /\ dispatched = {}
    /\ exit_code = 0
    /\ raised = FALSE
    /\ registered = ImportedRules
    /\ ast_tree = NoTree
    /\ reported = <<>>

\* config = Config.load(config_path)
Load_Config ==
    /\ pc = "idle"
    /\ config' = IF Load(yaml_file).raised THEN DefaultConfig ELSE Load(yaml_file).config
    /\ raised' = Load(yaml_file).raised
    /\ pc' = "loaded"
    /\ UNCHANGED <<registered, ast_tree, reported,
                   _rules, fs, yaml_file, baseline_file, args, baseline_fingerprints,
                   engine_manager, files_to_scan, results, consumed, scan_findings,
                   findings, invoked, dispatched, exit_code>>

NextLoad == Load_Config

SpecLoad == InitLoad /\ [][NextLoad]_vars

\* the file is missing, unreadable, not valid YAML, or its top-level value is
\* not a mapping
NotAMapping ==
    \/ yaml_file.kind # "doc"
    \/ yaml_file.data.t # "map"

\* C9: for a missing file, an unreadable file, invalid YAML, or YAML whose
\* top-level value is not a mapping, Config.load does not raise and returns
\* the default configuration.
C9_LoadFallsBack ==
    (pc = "loaded" /\ NotAMapping) => (~raised /\ config = DefaultConfig)

\* C9, the cases that hold: load raises only on a document, and never on one
\* whose top-level value is falsy (null, an empty sequence, 0, false, "")
C9_NoRaiseWithoutDocument ==
    (pc = "loaded" /\ (yaml_file.kind # "doc" \/ ~Truthy(yaml_file.data))) =>
        (~raised /\ config = DefaultConfig)

\* the document is rules: {B001: v}, possibly with an exclude key
HasRuleValue ==
    /\ yaml_file.kind = "doc"
    /\ yaml_file.data.t = "map"
    /\ "rules" \in DOMAIN yaml_file.data.m
    /\ yaml_file.data.m["rules"].t = "map"
    /\ "B001" \in DOMAIN yaml_file.data.m["rules"].m

RuleValue == yaml_file.data.m["rules"].m["B001"]

\* the loaded entry of B001 is (enabled, severity override)
Loaded(enabled, severity) ==
    /\ ~raised
    /\ "B001" \in DOMAIN config.rules
    /\ config.rules["B001"] = [severity |-> severity, enabled |-> enabled]

\* a YAML scalar that is exactly a severity name
IsSeverityName(v) == v.t = "str" /\ v.s \in SeverityNames

\* the claim's cases.  In the string form OFF and the severity names are read
\* in any letter case, which is the reading most favourable to the claim; in
\* the mapping form "leaves the rule enabled" is read as: the enabled key
\* decides, and the rule is enabled when the key is absent.
StringCase(v) ==
    IF StrUpper(v.s) = StrOFF THEN Loaded(FALSE, None)
    ELSE IF StrUpper(v.s) \in SeverityNames
        THEN Loaded(TRUE, SeverityMember(StrUpper(v.s)))
    ELSE Loaded(TRUE, None)

BoolCase(v) == Loaded(v.b, None)

MappingCase(v) ==
    LET en == IF "enabled" \in DOMAIN v.m THEN Truthy(v.m["enabled"]) ELSE TRUE
    IN  IF "severity" \in DOMAIN v.m /\ IsSeverityName(v.m["severity"])
        THEN Loaded(en, SeverityMember(v.m["severity"].s))
        ELSE Loaded(en, None)

\* C10: Config.load maps a per-rule value to (enabled, override): "OFF" gives
\* enabled=false; a severity name gives enabled=true with that override; a
\* boolean b gives enabled=b, no override; a mapping gives enabled and severity
\* from its keys; a severity value that is no known severity name, in the
\* string or the mapping form, gives no override and leaves the rule enabled.
C10_RuleValueShapes ==
    (pc = "loaded" /\ HasRuleValue) =>
        CASE RuleValue.t = "str"  -> StringCase(RuleValue)
          [] RuleValue.t = "bool" -> BoolCase(RuleValue)
          [] RuleValue.t = "map"  -> MappingCase(RuleValue)
          [] OTHER -> TRUE

\* C10, the cases that hold: every shape whose severity value can be hashed
C10_HashableShapes ==
    (pc = "loaded" /\ HasRuleValue
        /\ ~(RuleValue.t = "map" /\ "severity" \in DOMAIN RuleValue.m
                /\ Unhashable(RuleValue.m["severity"]))) =>
        CASE RuleValue.t = "str"  -> StringCase(RuleValue)
          [] RuleValue.t = "bool" -> BoolCase(RuleValue)
          [] RuleValue.t = "map"  -> MappingCase(RuleValue)
          [] OTHER -> TRUE

(***************************************************************************)
(* Exclude patterns: Engine.scan_path on a direct file path                *)
(* (engine.py, lines 28-30) under a configuration with exclude patterns.   *)
(* The patterns hold literals, `*` and `?`; none holds a bracket class.    *)
(***************************************************************************)
\* the largest number of exclude patterns of a configuration
MaxPatterns == 2

\* a/b, a/x/b, a/x/y/b, a/c, x/a/b
GlobPaths ==
    {<<"a","/","b">>, <<"a","/","x","/","b">>, <<"a","/","x","/","y","/","b">>,
     <<"a","/","c">>, <<"x","/","a","/","b">>}

\* a/**/b, a/*, a/?/b, a/b, **/b
GlobPatterns ==
    {<<"a","/","*","*","/","b">>, <<"a","/","*">>, <<"a","/","?","/","b">>,
     <<"a","/","b">>, <<"*","*","/","b">>}

ExcludeLists ==
    UNION {[1..n -> GlobPatterns] : n \in 1..MaxPatterns}

InitGlob ==
    /\ _rules = ImportedRules
    /\ fs = [p \in GlobPaths |-> Ok(Tree(0, 0, 0, FALSE))]
    /\ yaml_file = Missing
    /\ baseline_file = [exists |-> FALSE, records |-> <<>>]
    /\ pc = "scan"
    /\ args \in [path : GlobPaths, json_output : {FALSE},
                 generate_baseline : {FALSE}, show_baseline : {FALSE}]
    /\ config \in {Config(EmptyDict, ex) : ex \in ExcludeLists}
    /\ baseline_fingerprints = {}
    /\ engine_manager = TRUE
    /\ files_to_scan = <<>>
    /\ results = <<>>
    /\ consumed = 0
    /\ scan_findings = <<>>
    /\ findings = <<>>
    /\ invoked = {}
    /\ dispatched = {}
    /\ exit_code = 0
    /\ raised = FALSE
    /\ registered = ImportedRules
    /\ ast_tree = NoTree
    /\ reported = <<>>

NextGlob == Scan_Collect

SpecGlob == InitGlob /\ [][NextGlob]_vars

\* the pattern with the four characters at i..i+3 replaced by one "/"
Collapse(pat, i) == SubSeq(pat, 1, i) \o SubSeq(pat, i + 4, Len(pat))

IsDeepSegment(pat, i) ==
    /\ i + 3 <= Len(pat)
    /\ SubSeq(pat, i, i + 3) = <<"/","*","*","/">>

\* shell-style matching of the full path in which a `/**/` segment stands for
\* zero or more path components: one or more components are what `*` between
\* two slashes matches, zero components is the segment collapsed to one slash
RECURSIVE GlobMatch(_, _)
GlobMatch(path, pat) ==
    \/ fnmatch(path, pat)
    \/ \E i \in 1..Len(pat) :
          IsDeepSegment(pat, i) /\ GlobMatch(path, Collapse(pat, i))

\* the direct path was tested against the exclude patterns
GlobDecided == pc = "pool"

\* C11: is_path_excluded(path) is true exactly when the path matches at least
\* one exclude pattern under shell-style glob semantics on the full path
\* string, a `/**/` segment matching zero or more path components (a/**/b
\* matches a/b, a/x/b and a/x/y/b).
C11_GlobSemantics ==
    GlobDecided =>
        (is_path_excluded(config, args.path)
            <=> \E k \in 1..Len(config.exclude) : GlobMatch(args.path, config.exclude[k]))

\* what the code does: the path is excluded, and so not scanned, exactly when
\* fnmatch matches it against one of the patterns; a/**/b matches a/x/b and
\* a/x/y/b
C11_FnmatchOnly ==
    GlobDecided =>
        /\ (files_to_scan = <<>>)
              <=> \E k \in 1..Len(config.exclude) : fnmatch(args.path, config.exclude[k])
        /\ (config.exclude = <<<<"a","/","*","*","/","b">>>>
               /\ args.path \in {<<"a","/","x","/","b">>, <<"a","/","x","/","y","/","b">>})
              => files_to_scan = <<>>

\* a/b under the single pattern a/**/b is scanned
C11_ZeroComponents ==
    /\ GlobDecided
    /\ config.exclude = <<<<"a","/","*","*","/","b">>>>
    /\ args.path = <<"a","/","b">>
    /\ files_to_scan = <<<<"a","/","b">>>>

(***************************************************************************)
(* The registry under arbitrary sequences of RuleRegistry.register calls   *)
(* (registry.py, lines 16-28), starting from the empty class attribute.    *)
(***************************************************************************)
\* the largest number of register calls
MaxRegister == 3

Languages == {"python", "javascript"}

\* the descriptors a register call may build
RuleDefs ==
    {RuleDefinition(id, "LOW", language, check_fn) :
        id \in {"B001", "L001", "J001"}, language \in Languages,
        check_fn \in {"check_a", "check_b"}}

InitRegistry ==
    /\ _rules = <<>>
    /\ registered = <<>>
    /\ fs \in {f \in FileSystems : f[FileA].kind = "syntaxerror" /\ f[FileB].kind = "ok"}
    /\ yaml_file = Missing
    /\ baseline_file = [exists |-> FALSE, records |-> <<>>]
    /\ pc = "import"
    /\ args = [path |-> DirD, json_output |-> FALSE,
               generate_baseline |-> FALSE, show_baseline |-> FALSE]
    /\ config = DefaultConfig
    /\ baseline_fingerprints = {}
    /\ engine_manager = FALSE
    /\ files_to_scan = <<>>
    /\ results = <<>>
    /\ consumed = 0
    /\ scan_findings = <<>>
    /\ findings = <<>>
    /\ invoked = {}
    /\ dispatched = {}
    /\ exit_code = 0
    /\ raised = FALSE
    /\ ast_tree = NoTree
    /\ reported = <<>>

\* @RuleRegistry.register(id, description, severity, language) applied to func
Register(rule) ==
    /\ Len(registered) < MaxRegister
    /\ _rules' = register(_rules, rule)
    /\ registered' = Append(registered, rule)
    /\ UNCHANGED <<ast_tree, reported, fs, yaml_file, baseline_file, pc, args, config,
                   baseline_fingerprints, engine_manager, files_to_scan, results,
                   consumed, scan_findings, findings, invoked, dispatched,
                   exit_code, raised>>

NextRegistry == \E rule \in RuleDefs : Register(rule)

SpecRegistry == InitRegistry /\ [][NextRegistry]_vars

RegisteredIds == {registered[k].id : k \in 1..Len(registered)}

Registrations(id) == {k \in 1..Len(registered) : registered[k].id = id}

FirstRegistration(id) ==
    CHOOSE k \in Registrations(id) : \A m \in Registrations(id) : k <= m

MostRecent(id) ==
    registered[CHOOSE k \in Registrations(id) : \A m \in Registrations(id) : m <= k]

\* C12: after any sequence of register calls each rule id maps to exactly one
\* descriptor, the one of the most recent registration of that id, and
\* get_rules_for_language(L) returns exactly the descriptors whose language
\* tag is L, each once, in the order in which their ids were first registered.
C12_Registry ==
    /\ {_rules[i].id : i \in 1..Len(_rules)} = RegisteredIds
    /\ \A id \in RegisteredIds :
          /\ Cardinality({i \in 1..Len(_rules) : _rules[i].id = id}) = 1
          /\ \A i \in 1..Len(_rules) : _rules[i].id = id => _rules[i] = MostRecent(id)
    /\ \A L \in Languages :
          LET out == get_rules_for_language(_rules, L)
          IN  /\ Range(out) = {MostRecent(id) : id \in {x \in RegisteredIds :
                                                        MostRecent(x).language = L}}
              /\ \A i, j \in 1..Len(out) :
                    i < j => FirstRegistration(out[i].id) < FirstRegistration(out[j].id)

\* an id registered again, with another callable and after a second id, and
\* both are listed for the language
C12_Witness ==
    /\ Len(registered) = 3
    /\ registered[1].id = registered[3].id
    /\ registered[2].id # registered[1].id
    /\ registered[3].check_fn # registered[1].check_fn
    /\ Len(get_rules_for_language(_rules, "python")) = 2

(***************************************************************************)
(* The aggregate of scan_path (engine.py, lines 49-61).                    *)
(***************************************************************************)
OfFile(fnds, file) ==
    LET IsOfFile(f) == f.file = file IN SelectSeq(fnds, IsOfFile)

Contiguous(fnds) ==
    \A i, k \in 1..Len(fnds) :
        (i < k /\ fnds[i].file = fnds[k].file) =>
            \A j \in i..k : fnds[j].file = fnds[i].file

\* C13: in the aggregate built by scan_path, whatever the interleaving and
\* completion order of the workers, the findings of one file are contiguous
\* and in the order in which the rules produced them, and the baseline filter
\* is applied only once the findings of all files are in the aggregate.
C13_AggregateOrder ==
    pc \in {"pool", "report"} =>
        /\ Contiguous(scan_findings)
        /\ \A i \in 1..Len(files_to_scan) :
              OfFile(scan_findings, files_to_scan[i]) =
                  IF i <= consumed
                  THEN analyze_file_wrapper(_rules, files_to_scan[i], config).findings
                  ELSE <<>>
        /\ scan_findings = Concat(results, consumed)
        /\ pc = "pool" => findings = <<>>
        /\ pc = "report" =>
              /\ consumed = Len(files_to_scan)
              /\ findings = ScanResult(engine_manager, baseline_fingerprints,
                                       Concat(results, Len(files_to_scan)))

\* the scan returned: a.py and b.py each have two or more findings in the
\* aggregate and the baseline filter removed some of them
C13_Witness ==
    /\ pc = "report"
    /\ Len(OfFile(scan_findings, FileA)) >= 2
    /\ Len(OfFile(scan_findings, FileB)) >= 2
    /\ engine_manager
    /\ findings # scan_findings

(***************************************************************************)
(* The syntax trees the rules read (Python's ast module).  A node is a     *)
(* record: t is its class, the other fields are those the rules read.  A   *)
(* field that holds None in Python holds Absent.  The nodes a rule reports *)
(* carry their line; in the modules drawn below every such node is on a    *)
(* line of its own.  Identifiers (names, attributes, function names) are   *)
(* sequences of characters.                                                *)
(***************************************************************************)
Absent == [t |-> "Absent"]

Module(body) == [t |-> "Module", body |-> body]
arguments(params, kw_defaults, defaults) ==
    [t |-> "arguments", args |-> params, kw_defaults |-> kw_defaults, defaults |-> defaults]
FunctionDef(name, arglist, body, lineno) ==
    [t |-> "FunctionDef", name |-> name, args |-> arglist, body |-> body, lineno |-> lineno]
Return(value) == [t |-> "Return", value |-> value]
Assign(targets, value) == [t |-> "Assign", targets |-> targets, value |-> value]
While(test, body, orelse, lineno) ==
    [t |-> "While", test |-> test, body |-> body, orelse |-> orelse, lineno |-> lineno]
If(test, body, orelse) == [t |-> "If", test |-> test, body |-> body, orelse |-> orelse]
Try(body, handlers, orelse, finalbody) ==
    [t |-> "Try", body |-> body, handlers |-> handlers, orelse |-> orelse,
     finalbody |-> finalbody]
ExceptHandler(type, body, lineno) ==
    [t |-> "ExceptHandler", type |-> type, body |-> body, lineno |-> lineno]
Expr(value) == [t |-> "Expr", value |-> value]
\* a statement or expression without fields the rules read: ast.Pass,
\* ast.Break, ast.Continue, ast.Raise, ast.Yield
Stmt(class) == [t |-> class]
Compare(left, op, comparator) ==
    [t |-> "Compare", left |-> left, ops |-> <<op>>, comparators |-> <<comparator>>]
Call(func, actuals) == [t |-> "Call", func |-> func, args |-> actuals]
Constant(value) == [t |-> "Constant", value |-> value]
Attribute(value, attr, lineno) ==
    [t |-> "Attribute", value |-> value, attr |-> attr, lineno |-> lineno]
Subscript(value, slice, lineno) ==
    [t |-> "Subscript", value |-> value, slice |-> slice, lineno |-> lineno]
Name(id) == [t |-> "Name", id |-> id]
Literal(class, lineno) == [t |-> class, elts |-> <<>>, lineno |-> lineno]

\* a sequence without its Absent entries
Present(nodes) == LET IsNode(n) == n.t # "Absent" IN SelectSeq(nodes, IsNode)

\* ast.iter_child_nodes: the child nodes of a node, in field order
ChildNodes(n) ==
    CASE n.t \in {"Module", "ClassDef"} -> n.body
      [] n.t \in {"FunctionDef", "AsyncFunctionDef"} -> <<n.args>> \o n.body
      [] n.t = "arguments" -> n.args \o Present(n.kw_defaults) \o n.defaults
      [] n.t = "Return" -> Present(<<n.value>>)
      [] n.t = "Assign" -> n.targets \o <<n.value>>
      [] n.t = "AnnAssign" -> Present(<<n.target, n.annotation, n.value>>)
      [] n.t = "For" -> <<n.target, n.iter>> \o n.body
      [] n.t \in {"While", "If"} -> <<n.test>> \o n.body \o n.orelse
      [] n.t = "With" -> n.items \o n.body
      [] n.t = "withitem" -> Present(<<n.context_expr, n.optional_vars>>)
      [] n.t = "Try" -> n.body \o n.handlers \o n.orelse \o n.finalbody
      [] n.t = "ExceptHandler" -> Present(<<n.type>>) \o n.body
      [] n.t = "Expr" -> <<n.value>>
      [] n.t = "Compare" -> <<n.left>> \o n.comparators
      [] n.t = "UnaryOp" -> <<n.operand>>
      [] n.t = "BoolOp" -> n.values
      [] n.t = "Assert" -> <<n.test>>
      [] n.t = "Starred" -> <<n.value>>
      [] n.t = "Call" -> <<n.func>> \o n.args
      [] n.t = "Attribute" -> <<n.value>>
      [] n.t = "Subscript" -> <<n.value, n.slice>>
      [] n.t \in {"List", "Dict", "Set", "Tuple"} -> n.elts
      [] OTHER -> <<>>

\* ast.walk: the node and its descendants, breadth first
RECURSIVE WalkQueue(_)
WalkQueue(todo) ==
    IF todo = <<>> THEN <<>>
    ELSE <<Head(todo)>> \o WalkQueue(Tail(todo) \o ChildNodes(Head(todo)))

Walk(node) == WalkQueue(<<node>>)

\* RuleContext (models.py): the file name and its parsed module
RuleContext(filename, module) == [filename |-> filename, tree |-> module]

\* the context PythonAnalyzer.analyze builds (parser.py, line 21)
Context == RuleContext(args.path, ast_tree)

RECURSIVE Flatten(_)
Flatten(seqs) == IF seqs = <<>> THEN <<>> ELSE Head(seqs) \o Flatten(Tail(seqs))

(***************************************************************************)
(* bina/python/rules/best_practices.py                                     *)
(***************************************************************************)
IsMutableLiteral(node) == node.t \in {"List", "Dict", "Set"}

\* B001: check_mutable_defaults(context)
check_mutable_defaults(context) ==
    LET nodes == Walk(context.tree)
        OfNode(node) ==
            IF node.t = "FunctionDef"
            THEN LET hits == SelectSeq(node.args.defaults, IsMutableLiteral)
                 IN  [k \in 1..Len(hits) |->
                         Finding("B001", "Mutable default argument detected.", "MEDIUM",
                                 context.filename, hits[k].lineno)]
            ELSE <<>>
    IN  Flatten([i \in 1..Len(nodes) |-> OfNode(nodes[i])])

\* what makes a handler silent for check_silent_exception: a bare except or
\* `except Exception` whose body is one statement, pass or `...`
IsBareOrException(handler) ==
    \/ handler.type.t = "Absent"
    \/ handler.type.t = "Name" /\ handler.type.id = <<"E","x","c","e","p","t","i","o","n">>

IsPassOrEllipsis(body) ==
    /\ Len(body) = 1
    /\ \/ body[1].t = "Pass"
       \/ /\ body[1].t = "Expr"
          /\ body[1].value.t = "Constant"
          /\ body[1].value.value = "Ellipsis"

\* a rule that looks at the handler body alone, whatever the handler catches
check_silent_exception_AnyType(context) ==
    LET nodes == Walk(context.tree)
        OfNode(node) ==
            IF node.t = "ExceptHandler" /\ IsPassOrEllipsis(node.body)
            THEN <<Finding("B002", "Silent exception swallowing.", "HIGH",
                           context.filename, node.lineno)>>
            ELSE <<>>
    IN  Flatten([i \in 1..Len(nodes) |-> OfNode(nodes[i])])

\* B002: check_silent_exception(context)
check_silent_exception(context) ==
    LET nodes == Walk(context.tree)
        OfNode(node) ==
            IF /\ node.t = "ExceptHandler"
               /\ IsBareOrException(node)
               /\ IsPassOrEllipsis(node.body)
            THEN <<Finding("B002", "Silent exception swallowing.", "HIGH",
                           context.filename, node.lineno)>>
            ELSE <<>>
    IN  Flatten([i \in 1..Len(nodes) |-> OfNode(nodes[i])])

(***************************************************************************)
(* bina/python/rules/logic.py.  The rules are classes derived from         *)
(* BaseRule, which is not among the sources: how a rule object is driven   *)
(* over the module and what report() builds follow the specification       *)
(* (section 4.7: L001 is applied to every While; a finding carries the     *)
(* rule's id and severity and the node's line).  L003 has visit methods of *)
(* its own for the module and the function definitions, which fix how far  *)
(* it goes into the tree.                                                  *)
(***************************************************************************)
\* BaseRule.report(message, node, suggestion)
report(rule_id, severity, filename, message, node) ==
    <<Finding(rule_id, message, severity, filename, node.lineno)>>

ExitClasses == {"Break", "Return", "Raise", "Yield", "YieldFrom"}

\* InfiniteLoopRule.visit_While.  `node.test.value == 1` holds of the
\* constants 1, True and 1.0.
visit_While(node, filename) ==
    LET is_always_true ==
            node.test.t = "Constant" /\ node.test.value \in {"True", "1", "1.0"}
        has_exit == \E child \in Range(Walk(node)) : child.t \in ExitClasses
    IN  IF is_always_true /\ ~has_exit
        THEN report("L001", "HIGH", filename, "Potential infinite loop.", node)
        ELSE <<>>

\* L001 applied to a module: visit_While on every While node
InfiniteLoopRule(context) ==
    LET nodes == Walk(context.tree)
        OfNode(node) ==
            IF node.t = "While" THEN visit_While(node, context.filename) ELSE <<>>
    IN  Flatten([i \in 1..Len(nodes) |-> OfNode(nodes[i])])

\* UncheckedNoneRule.analyze_guard(test_node): (variable_name, is_none_check);
\* found is false for the result (None, None)
analyze_guard(test_node) ==
    LET IsNoneCompare ==
            /\ test_node.t = "Compare"
            /\ Len(test_node.ops) = 1
            /\ test_node.comparators[1] = Constant("None")
            /\ test_node.left.t = "Name"
            /\ test_node.ops[1] \in {"Is", "IsNot"}
    IN  IF IsNoneCompare
        THEN [found |-> TRUE, var |-> test_node.left.id,
              is_none |-> (test_node.ops[1] = "Is")]
        ELSE IF test_node.t = "Name"
        THEN [found |-> TRUE, var |-> test_node.id, is_none |-> FALSE]
        ELSE IF /\ test_node.t = "UnaryOp"
                /\ test_node.op = "Not"
                /\ test_node.operand.t = "Name"
        THEN [found |-> TRUE, var |-> test_node.operand.id, is_none |-> TRUE]
        ELSE IF /\ test_node.t = "Call"
                /\ test_node.func.t = "Name"
                /\ test_node.func.id \in {<<"i","s","i","n","s","t","a","n","c","e">>,
                                          <<"h","a","s","a","t","t","r">>}
                /\ Len(test_node.args) >= 1
                /\ test_node.args[1].t = "Name"
        THEN [found |-> TRUE, var |-> test_node.args[1].id, is_none |-> FALSE]
        ELSE [found |-> FALSE, var |-> <<>>, is_none |-> FALSE]

\* UncheckedNoneRule.get_rebound_names(node)
RECURSIVE get_rebound_names(_)
get_rebound_names(node) ==
    IF node.t = "Name" THEN {node.id}
    ELSE IF node.t \in {"Tuple", "List"}
    THEN UNION {get_rebound_names(node.elts[k]) : k \in 1..Len(node.elts)}
    ELSE IF node.t = "Starred" THEN get_rebound_names(node.value)
    ELSE {}

\* UncheckedNoneRule.block_terminates(stmts)
block_terminates(stmts) ==
    \E k \in 1..Len(stmts) : stmts[k].t \in {"Return", "Raise", "Break", "Continue"}

RECURSIVE check_dereference(_, _)

\* check_dereference, were the operands of a boolean operator, once checked
\* in turn, checked again with the node's other children (no return at the
\* end of the two loops)
check_dereference_BoolOpTwice(node, dangerous_vars) ==
    LET own ==
            IF /\ node.t = "Attribute"
               /\ node.value.t = "Name"
               /\ node.value.id \in dangerous_vars
               /\ ~(StartsWith(node.attr, <<"_","_">>) /\ EndsWith(node.attr, <<"_","_">>))
            THEN report("L003", "HIGH", Context.filename,
                        <<"Potential None dereference", node.value.id>>, node)
            ELSE IF /\ node.t = "Subscript"
                    /\ node.value.t = "Name"
                    /\ node.value.id \in dangerous_vars
            THEN report("L003", "HIGH", Context.filename,
                        <<"Potential None subscript", node.value.id>>, node)
            ELSE <<>>
        children ==
            CASE node.t \in {"If", "While"} -> <<node.test>>
              [] node.t = "For" -> <<node.target, node.iter>>
              [] node.t = "With" -> node.items
              [] node.t = "Try" -> <<>>
              [] node.t = "BoolOp" -> node.values \o node.values
              [] OTHER -> ChildNodes(node)
    IN  own \o Flatten([k \in 1..Len(children) |->
                           check_dereference(children[k], dangerous_vars)])

\* UncheckedNoneRule.check_dereference(node, dangerous_vars): the findings
\* reported, in order
check_dereference(node, dangerous_vars) ==
    IF node.t = "BoolOp" /\ node.op \in {"And", "Or"}
    THEN
        \* the operands in turn; a guard among them narrows the set for the
        \* operands after it
        LET RECURSIVE Operands(_, _)
            Operands(k, current) ==
                IF k > Len(node.values) THEN <<>>
                ELSE
                    LET val == node.values[k]
                        g == analyze_guard(val)
                        narrows ==
                            /\ g.found
                            /\ g.var \in current
                            /\ IF node.op = "And" THEN ~g.is_none ELSE g.is_none
                    IN  check_dereference(val, current)
                            \o Operands(k + 1, IF narrows THEN current \ {g.var}
                                                          ELSE current)
        IN  Operands(1, dangerous_vars)
    ELSE
        LET own ==
                IF /\ node.t = "Attribute"
                   /\ node.value.t = "Name"
                   /\ node.value.id \in dangerous_vars
                   /\ ~(StartsWith(node.attr, <<"_","_">>) /\ EndsWith(node.attr, <<"_","_">>))
                THEN report("L003", "HIGH", Context.filename,
                            <<"Potential None dereference", node.value.id>>, node)
                ELSE IF /\ node.t = "Subscript"
                        /\ node.value.t = "Name"
                        /\ node.value.id \in dangerous_vars
                THEN report("L003", "HIGH", Context.filename,
                            <<"Potential None subscript", node.value.id>>, node)
                ELSE <<>>
            \* the fields left after skip_fields
            children ==
                CASE node.t \in {"If", "While"} -> <<node.test>>
                  [] node.t = "For" -> <<node.target, node.iter>>
                  [] node.t = "With" -> node.items
                  [] node.t = "Try" -> <<>>
                  [] OTHER -> ChildNodes(node)
        IN  own \o Flatten([k \in 1..Len(children) |->
                               check_dereference(children[k], dangerous_vars)])

\* infer_guards, were only the If guards recorded and the Assert guards not
infer_guards_IfOnly(module) ==
    LET nodes == Walk(module)
        Indices(fn) ==
            LET arg_names == [k \in 1..Len(fn.args.args) |-> fn.args.args[k].arg]
                Index(var) == (CHOOSE k \in 1..Len(arg_names) : arg_names[k] = var) - 1
                OfStmt(stmt) ==
                    IF stmt.t = "If"
                    THEN LET g == analyze_guard(stmt.test)
                         IN  IF /\ g.found
                                /\ g.var \in Range(arg_names)
                                /\ g.is_none /\ block_terminates(stmt.body)
                             THEN {Index(g.var)}
                             ELSE {}
                    ELSE {}
            IN  UNION {OfStmt(fn.body[k]) : k \in 1..Len(fn.body)}
        Guarding == {i \in 1..Len(nodes) :
                        /\ nodes[i].t \in {"FunctionDef", "AsyncFunctionDef"}
                        /\ Indices(nodes[i]) # {}}
    IN  [name \in {nodes[i].name : i \in Guarding} |->
            Indices(nodes[CHOOSE i \in Guarding : nodes[i].name = name])]

\* UncheckedNoneRule.infer_guards(tree): function name -> guarded argument
\* indices; a later definition of a name replaces an earlier one
infer_guards(module) ==
    LET nodes == Walk(module)
        Indices(fn) ==
            LET arg_names == [k \in 1..Len(fn.args.args) |-> fn.args.args[k].arg]
                Index(var) == (CHOOSE k \in 1..Len(arg_names) :
                                  /\ arg_names[k] = var
                                  /\ \A m \in 1..(k - 1) : arg_names[m] # var) - 1
                OfStmt(stmt) ==
                    IF stmt.t \in {"If", "Assert"}
                    THEN LET g == analyze_guard(stmt.test)
                         IN  IF /\ g.found
                                /\ g.var \in Range(arg_names)
                                /\ IF stmt.t = "If"
                                   THEN g.is_none /\ block_terminates(stmt.body)
                                   ELSE ~g.is_none
                             THEN {Index(g.var)}
                             ELSE {}
                    ELSE {}
            IN  UNION {OfStmt(fn.body[k]) : k \in 1..Len(fn.body)}
        Guarding == {i \in 1..Len(nodes) :
                        /\ nodes[i].t \in {"FunctionDef", "AsyncFunctionDef"}
                        /\ Indices(nodes[i]) # {}}
        Last(name) == CHOOSE i \in Guarding :
                          /\ nodes[i].name = name
                          /\ \A j \in Guarding : nodes[j].name = name => j <= i
    IN  [name \in {nodes[i].name : i \in Guarding} |-> Indices(nodes[Last(name)])]

\* self.guards, set by visit_Module
guards == infer_guards(ast_tree)

\* UncheckedNoneRule.scan_block(stmts, dangerous_vars): [D, out], the set
\* returned and the findings reported on the way.  scan_stmt is one
\* iteration of its loop.
RECURSIVE scan_block(_, _)
RECURSIVE scan_stmt(_, _)
scan_stmt(stmt, current_dangerous) ==
    LET D == current_dangerous
        Keep(out) == [D |-> D, out |-> out]
        is_to_none == stmt.value = Constant("None")
    IN
    CASE stmt.t = "Assign" ->
            LET names == UNION {get_rebound_names(stmt.targets[k]) :
                                   k \in 1..Len(stmt.targets)}
            IN  [D |-> IF is_to_none THEN D \cup names ELSE D \ names, out |-> <<>>]
      [] stmt.t = "AnnAssign" ->
            [D |-> IF stmt.target.t # "Name" THEN D
                   ELSE IF is_to_none THEN D \cup {stmt.target.id}
                   ELSE IF stmt.value.t # "Absent" THEN D \ {stmt.target.id}
                   ELSE D,
             out |-> <<>>]
      [] stmt.t = "If" ->
            LET test_out == check_dereference(stmt.test, D)
                g == analyze_guard(stmt.test)
            IN  IF g.found /\ g.var \in D
                THEN
                    IF g.is_none
                    THEN
                        LET body_state == scan_block(stmt.body, D)
                            narrowed ==
                                IF g.var \notin body_state.D \/ block_terminates(stmt.body)
                                THEN D \ {g.var} ELSE D
                        IN  IF stmt.orelse # <<>>
                            THEN LET else_state == scan_block(stmt.orelse, narrowed \ {g.var})
                                 IN  [D |-> narrowed \cup else_state.D \cup body_state.D,
                                      out |-> test_out \o body_state.out \o else_state.out]
                            ELSE [D |-> narrowed, out |-> test_out \o body_state.out]
                    ELSE
                        LET body_state == scan_block(stmt.body, D \ {g.var})
                        IN  IF stmt.orelse # <<>>
                            THEN LET else_state == scan_block(stmt.orelse, D)
                                 IN  [D |-> D \cup body_state.D \cup else_state.D,
                                      out |-> test_out \o body_state.out \o else_state.out]
                            ELSE [D |-> D, out |-> test_out \o body_state.out]
                ELSE
                    LET body_state == scan_block(stmt.body, D)
                        else_state == IF stmt.orelse # <<>>
                                      THEN scan_block(stmt.orelse, D)
                                      ELSE [D |-> D, out |-> <<>>]
                    IN  [D |-> body_state.D \cup else_state.D,
                         out |-> test_out \o body_state.out \o else_state.out]
      [] stmt.t = "While" ->
            Keep(check_dereference(stmt.test, D) \o scan_block(stmt.body, D).out)
      [] stmt.t = "For" ->
            Keep(check_dereference(stmt.iter, D)
                 \o scan_block(stmt.body, D \ get_rebound_names(stmt.target)).out)
      [] stmt.t = "With" ->
            LET RECURSIVE Items(_, _)
                Items(k, current) ==
                    IF k > Len(stmt.items) THEN [D |-> current, out |-> <<>>]
                    ELSE
                        LET item == stmt.items[k]
                            rest == Items(k + 1,
                                        IF item.optional_vars.t # "Absent"
                                        THEN current \ get_rebound_names(item.optional_vars)
                                        ELSE current)
                        IN  [D |-> rest.D,
                             out |-> check_dereference(item.context_expr, current) \o rest.out]
                items_state == Items(1, D)
                body_state == scan_block(stmt.body, items_state.D)
            IN  [D |-> body_state.D, out |-> items_state.out \o body_state.out]
      [] stmt.t = "Try" ->
            Keep(scan_block(stmt.body, D).out
                 \o Flatten([k \in 1..Len(stmt.handlers) |->
                                scan_block(stmt.handlers[k].body, D).out])
                 \o scan_block(stmt.orelse, D).out
                 \o scan_block(stmt.finalbody, D).out)
      [] stmt.t = "Expr" /\ stmt.value.t = "Call" ->
            LET func_node == stmt.value.func
                func_name == IF func_node.t = "Name" THEN <<func_node.id>>
                             ELSE IF func_node.t = "Attribute" THEN <<func_node.attr>>
                             ELSE <<>>
                is_method_call == func_node.t = "Attribute"
                actuals == stmt.value.args
                cleared ==
                    IF func_name # <<>> /\ func_name[1] \in DOMAIN guards
                    THEN {actuals[k + 1].id :
                            k \in {j \in {IF is_method_call THEN param_idx - 1 ELSE param_idx :
                                             param_idx \in guards[func_name[1]]} :
                                      /\ 0 <= j
                                      /\ j < Len(actuals)
                                      /\ actuals[j + 1].t = "Name"}}
                    ELSE {}
            IN  [D |-> D \ cleared, out |-> check_dereference(stmt, D \ cleared)]
      [] stmt.t = "Assert" ->
            LET g == analyze_guard(stmt.test)
                after == IF g.found /\ g.var \in D /\ ~g.is_none THEN D \ {g.var} ELSE D
            IN  [D |-> after, out |-> check_dereference(stmt.test, after)]
      [] OTHER -> Keep(check_dereference(stmt, D))

\* scan_block, were the state at the end of a loop body or of a try body
\* carried on to the statements after it
scan_block_BodyState(stmts, dangerous_vars) ==
    IF stmts = <<>> THEN [D |-> dangerous_vars, out |-> <<>>]
    ELSE
        LET one == scan_stmt(Head(stmts), dangerous_vars)
            after == IF Head(stmts).t \in {"While", "For", "Try"}
                     THEN scan_block(Head(stmts).body, dangerous_vars).D
                     ELSE one.D
            rest == scan_block(Tail(stmts), after)
        IN  [D |-> rest.D, out |-> one.out \o rest.out]

scan_block(stmts, dangerous_vars) ==
    IF stmts = <<>> THEN [D |-> dangerous_vars, out |-> <<>>]
    ELSE
        LET one == scan_stmt(Head(stmts), dangerous_vars)
            rest == scan_block(Tail(stmts), one.D)
        IN  [D |-> rest.D, out |-> one.out \o rest.out]

\* L003 applied to a module.  visit_Module goes on into the module's
\* children (generic_visit); visit_FunctionDef and visit_AsyncFunctionDef
\* scan the body and do not go on into it, so a definition nested in a
\* function is not visited on its own; every other node is passed through to
\* its children.
UncheckedNoneRule(module) ==
    LET RECURSIVE visit(_)
        visit(node) ==
            IF node.t \in {"FunctionDef", "AsyncFunctionDef"}
            THEN scan_block(node.body, {}).out
            ELSE LET children == ChildNodes(node)
                 IN  Flatten([k \in 1..Len(children) |-> visit(children[k])])
    IN  visit(module)

(***************************************************************************)
(* The rules applied to one parsed module.                                 *)
(***************************************************************************)
\* def f(a [= pos], *, k [= kw]): pass, the def on line `lineno`, the defaults
\* on the two lines after it; a default is [], {}, set literal, () or None
FunWithDefaults(pos, kw, lineno) ==
    LET Default(kind, line) ==
            IF kind = "Constant" THEN Constant("None") ELSE Literal(kind, line)
    IN  FunctionDef(<<"f">>,
            arguments(<<[t |-> "arg", arg |-> <<"a">>]>>,
                      <<IF kw = "Absent" THEN Absent ELSE Default(kw, lineno + 2)>>,
                      IF pos = "Absent" THEN <<>> ELSE <<Default(pos, lineno + 1)>>),
            <<Stmt("Pass")>>, lineno)

\* one function with defaults, at top level or nested in another function
ModulesB001 ==
    {Module(<<FunWithDefaults(pos, kw, 1)>>) :
        pos \in {"List", "Dict", "Set", "Tuple", "Constant", "Absent"},
        kw \in {"List", "Dict", "Set", "Tuple", "Constant", "Absent"}}
    \cup {Module(<<FunctionDef(<<"o","u","t","e","r">>, arguments(<<>>, <<>>, <<>>), <<FunWithDefaults(pos, kw, 2)>>, 1)>>) :
        pos \in {"List", "Constant"}, kw \in {"Dict", "Absent"}}

\* the statements of a function f, the def on line 1
InFunction(body) == Module(<<FunctionDef(<<"f">>, arguments(<<>>, <<>>, <<>>), body, 1)>>)

CallStmt(name) == Expr(Call(Name(name), <<>>))

\* a try with one handler, and a try with a first handler for ValueError.
\* Try bodies: do() / x = do() / return do() / do(); do() / pass.
\* Handlers: except: / except Exception: / except ValueError: with the body
\* pass / ... / pass; pass / log()
ModulesB002 ==
    LET TryBodies ==
            {<<CallStmt(<<"d","o">>)>>, <<Assign(<<Name(<<"x">>)>>, Call(Name(<<"d","o">>), <<>>))>>,
             <<Return(Call(Name(<<"d","o">>), <<>>))>>, <<CallStmt(<<"d","o">>), CallStmt(<<"d","o">>)>>,
             <<Stmt("Pass")>>}
        HandlerTypes == {Absent, Name(<<"E","x","c","e","p","t","i","o","n">>), Name(<<"V","a","l","u","e","E","r","r","o","r">>)}
        HandlerBodies ==
            {<<Stmt("Pass")>>, <<Expr(Constant("Ellipsis"))>>,
             <<Stmt("Pass"), Stmt("Pass")>>, <<CallStmt(<<"l","o","g">>)>>}
    IN
    {InFunction(<<Try(body, <<ExceptHandler(type, hbody, 4)>>, orelse, <<>>)>>) :
        body \in TryBodies, type \in HandlerTypes, hbody \in HandlerBodies,
        orelse \in {<<>>, <<Stmt("Pass")>>}}
    \cup {InFunction(<<Try(body, <<ExceptHandler(Name(<<"V","a","l","u","e","E","r","r","o","r">>), <<Stmt("Pass")>>, 4),
                                  ExceptHandler(type, hbody, 6)>>, <<>>, <<>>)>>) :
        body \in TryBodies, type \in HandlerTypes, hbody \in HandlerBodies}

\* a while loop on line 2 of a function.  Tests: True / 1 / c / 0.  Bodies:
\* x = 1 / break / if c: break / yield / return / an inner `while True` on
\* line 3 with the body x = 1 or break.  The loop's else: none / return / pass
ModulesL001 ==
    LET SetX == Assign(<<Name(<<"x">>)>>, Constant("1"))
        Tests == {Constant("True"), Constant("1"), Name(<<"c">>), Constant("0")}
        Bodies ==
            {<<SetX>>, <<Stmt("Break")>>, <<If(Name(<<"c">>), <<Stmt("Break")>>, <<>>)>>,
             <<Expr(Stmt("Yield"))>>, <<SetX, Return(Absent)>>,
             <<While(Constant("True"), <<SetX>>, <<>>, 3)>>,
             <<While(Constant("True"), <<Stmt("Break")>>, <<>>, 3)>>}
        Orelses == {<<>>, <<Return(Absent)>>, <<Stmt("Pass")>>}
    IN  {InFunction(<<While(test, body, orelse, 2)>>) :
            test \in Tests, body \in Bodies, orelse \in Orelses}

\* one function on line 1 named get_x, Get_X or set_x.  Bodies: pass / a
\* docstring / do() / x = 1; return x / return / x = 1 / x = 1; do()
ModulesN001 ==
    LET SetX == Assign(<<Name(<<"x">>)>>, Constant("1"))
        Names == {<<"g","e","t","_","x">>, <<"G","e","t","_","X">>, <<"s","e","t","_","x">>}
        Bodies ==
            {<<Stmt("Pass")>>, <<Expr(Constant("str"))>>, <<CallStmt(<<"d","o">>)>>,
             <<SetX, Return(Name(<<"x">>))>>, <<Return(Absent)>>, <<SetX>>,
             <<SetX, CallStmt(<<"d","o">>)>>}
    IN  {Module(<<FunctionDef(name, arguments(<<>>, <<>>, <<>>), body, 1)>>) :
            name \in Names, body \in Bodies}

\* v = None
AssignNone(v) == Assign(<<Name(v)>>, Constant("None"))

\* print(v.a), the attribute access on line `lineno`
PrintAttr(v, lineno) ==
    Expr(Call(Name(<<"p","r","i","n","t">>), <<Attribute(Name(v), <<"a">>, lineno)>>))

\* def f(): x = None; <statement>, where the statement on line 3 holds x.a,
\* x[0] or x.__class__ in one of the places a statement has for an expression
ModulesDeref ==
    LET XA == Attribute(Name(<<"x">>), <<"a">>, 3)
        X0 == Subscript(Name(<<"x">>), Constant("0"), 3)
        Statements ==
            {Assign(<<Name(<<"y">>)>>, XA), Assign(<<Name(<<"y">>)>>, X0),
             Assign(<<XA>>, Constant("1")),
             [t |-> "AnnAssign", target |-> Name(<<"y">>),
              annotation |-> Name(<<"i","n","t">>), value |-> XA],
             Expr(XA), Expr(X0), PrintAttr(<<"x">>, 3), Return(XA),
             While(XA, <<Stmt("Pass")>>, <<>>, 3), If(XA, <<Stmt("Pass")>>, <<>>),
             [t |-> "For", target |-> Name(<<"i">>), iter |-> XA,
              body |-> <<Stmt("Pass")>>],
             [t |-> "With",
              items |-> <<[t |-> "withitem", context_expr |-> XA,
                           optional_vars |-> Name(<<"f">>)]>>,
              body |-> <<Stmt("Pass")>>],
             Expr(Attribute(Name(<<"x">>), <<"_","_","c","l","a","s","s","_","_">>, 3))}
    IN  {InFunction(<<AssignNone(<<"x">>), stmt>>) : stmt \in Statements}

\* def f(): x = None; z = None; if <test>: A [else: B]; print(x.a);
\* print(y.a); print(z.a), the three accesses on lines 10, 11 and 12.
\* Tests: x is None / not x / x is not None / x / c().
\* Branches: pass / return / raise / y = None / x = 1 / z = 1 / x = None
ModulesIf ==
    LET X == Name(<<"x">>)
        Set1(v) == Assign(<<Name(v)>>, Constant("1"))
        Tests ==
            {Compare(X, "Is", Constant("None")), [t |-> "UnaryOp", op |-> "Not", operand |-> X],
             Compare(X, "IsNot", Constant("None")), X, Call(Name(<<"c">>), <<>>)}
        Bodies ==
            {<<Stmt("Pass")>>, <<Return(Absent)>>, <<Stmt("Raise")>>, <<AssignNone(<<"y">>)>>,
             <<Set1(<<"x">>)>>, <<Set1(<<"z">>)>>, <<AssignNone(<<"y">>), Return(Absent)>>}
        Orelses ==
            {<<>>, <<Stmt("Pass")>>, <<AssignNone(<<"y">>)>>, <<Set1(<<"z">>)>>,
             <<AssignNone(<<"x">>)>>, <<Return(Absent)>>}
    IN  {InFunction(<<AssignNone(<<"x">>), AssignNone(<<"z">>), If(test, body, orelse),
                      PrintAttr(<<"x">>, 10), PrintAttr(<<"y">>, 11), PrintAttr(<<"z">>, 12)>>) :
            test \in Tests, body \in Bodies, orelse \in Orelses}

\* def f(): x = None; z = None; <loop or try>; print(x.a); print(y.a);
\* print(z.a), the three accesses on lines 10, 11 and 12.
\* while c(): A [else: B] / for <i | x | x, z> in it: print(x.a); print(z.a); A
\* (the two accesses on lines 5 and 6) / try: A except E: B else: C finally: F.
\* Blocks: pass / y = None / x = 1 / z = 1; y = None / x = None
ModulesLoop ==
    LET Set1(v) == Assign(<<Name(v)>>, Constant("1"))
        Blocks ==
            {<<Stmt("Pass")>>, <<AssignNone(<<"y">>)>>, <<Set1(<<"x">>)>>,
             <<Set1(<<"z">>), AssignNone(<<"y">>)>>, <<AssignNone(<<"x">>)>>}
        Fewer == {<<Stmt("Pass")>>, <<Set1(<<"x">>)>>, <<AssignNone(<<"y">>)>>}
        Targets ==
            {Name(<<"i">>), Name(<<"x">>),
             [t |-> "Tuple", elts |-> <<Name(<<"x">>), Name(<<"z">>)>>]}
        Whiles ==
            {While(Call(Name(<<"c">>), <<>>), body, orelse, 3) :
                body \in Blocks, orelse \in {<<>>} \cup Fewer}
        Fors ==
            {[t |-> "For", target |-> target, iter |-> Name(<<"i","t">>),
              body |-> <<PrintAttr(<<"x">>, 5), PrintAttr(<<"z">>, 6)>> \o body] :
                target \in Targets, body \in Blocks}
        Trys ==
            {Try(body, <<ExceptHandler(Name(<<"E">>), handler, 5)>>, orelse, finalbody) :
                body \in Blocks, handler \in Fewer, orelse \in {<<>>} \cup Fewer,
                finalbody \in {<<>>} \cup Fewer}
    IN  {InFunction(<<AssignNone(<<"x">>), AssignNone(<<"z">>), stmt,
                      PrintAttr(<<"x">>, 10), PrintAttr(<<"y">>, 11), PrintAttr(<<"z">>, 12)>>) :
            stmt \in Whiles \cup Fors \cup Trys}

\* def chk(a, b): <body>
\* def f(): x = None; z = None; <call>; print(x.a); print(y.a); print(z.a),
\* the call on line 3 and the three accesses on lines 10, 11 and 12.
\* Bodies of chk: if a is None: raise / if b is None: return / if not b: raise
\* / assert a is not None / assert b / if a is None: pass /
\* if a is not None: raise / pass / assert a is None / if c is None: raise /
\* if a is None: raise; assert b is not None / pass; if a is None: raise.
\* Calls: chk(...), o.chk(...), other(...), o.other(...) with the arguments
\* (x) / (x, z) / (z, x) / (y, x) / (x.a, x) / () / (1, z)
ModulesGuard ==
    LET IsNone(v) == Compare(Name(v), "Is", Constant("None"))
        IsNotNone(v) == Compare(Name(v), "IsNot", Constant("None"))
        Assert_(test) == [t |-> "Assert", test |-> test]
        Raise == <<Stmt("Raise")>>
        GuardBodies ==
            {<<If(IsNone(<<"a">>), Raise, <<>>)>>,
             <<If(IsNone(<<"b">>), <<Return(Absent)>>, <<>>)>>,
             <<If([t |-> "UnaryOp", op |-> "Not", operand |-> Name(<<"b">>)], Raise, <<>>)>>,
             <<Assert_(IsNotNone(<<"a">>))>>,
             <<Assert_(Name(<<"b">>))>>,
             <<If(IsNone(<<"a">>), <<Stmt("Pass")>>, <<>>)>>,
             <<If(IsNotNone(<<"a">>), Raise, <<>>)>>,
             <<Stmt("Pass")>>,
             <<Assert_(IsNone(<<"a">>))>>,
             <<If(IsNone(<<"c">>), Raise, <<>>)>>,
             <<If(IsNone(<<"a">>), Raise, <<>>), Assert_(IsNotNone(<<"b">>))>>,
             <<Stmt("Pass"), If(IsNone(<<"a">>), Raise, <<>>)>>}
        Params == <<[t |-> "arg", arg |-> <<"a">>], [t |-> "arg", arg |-> <<"b">>]>>
        Callees ==
            {Name(<<"c","h","k">>), Attribute(Name(<<"o">>), <<"c","h","k">>, 4),
             Name(<<"o","t","h","e","r">>),
             Attribute(Name(<<"o">>), <<"o","t","h","e","r">>, 4)}
        X == Name(<<"x">>)
        Z == Name(<<"z">>)
        Actuals ==
            {<<X>>, <<X, Z>>, <<Z, X>>, <<Name(<<"y">>), X>>,
             <<Attribute(X, <<"a">>, 3), X>>, <<>>, <<Constant("1"), Z>>}
    IN  {Module(<<FunctionDef(<<"c","h","k">>, arguments(Params, <<>>, <<>>), body, 1),
                  FunctionDef(<<"f">>, arguments(<<>>, <<>>, <<>>),
                              <<AssignNone(<<"x">>), AssignNone(<<"z">>),
                                Expr(Call(func, actuals)),
                                PrintAttr(<<"x">>, 10), PrintAttr(<<"y">>, 11),
                                PrintAttr(<<"z">>, 12)>>, 2)>>) :
            body \in GuardBodies, func \in Callees, actuals \in Actuals}

\* def f(): x = None; <statement>, alone in the module or as a method of a
\* class, where the statement is two compound statements or definitions, one
\* in the other, around a leaf.  Every attribute access and subscript is on
\* a line of its own: those of the outer statement from line 10, of the inner
\* from line 20, of the leaf from line 30.
\* Compound statements: if x.t: B / if x is None: B else: print(x.a) /
\* while x.t: B / for i in x.t: B / with x.t as g: B /
\* try: B except E: print(x.a) finally: print(x.a) / def g(): B /
\* def g(): x = None; B / class C: def m(): x = None; B.
\* Leaves: print(x.a) / x.a and x.b / x is None or x.a / x.a[0] /
\* x = None; print(x.a)
ModulesNested ==
    LET X == Name(<<"x">>)
        NoArgs == arguments(<<>>, <<>>, <<>>)
        XT(line) == Attribute(X, <<"t">>, line)
        IsNone == Compare(X, "Is", Constant("None"))
        BoolOp(op, values) == [t |-> "BoolOp", op |-> op, values |-> values]
        Leaves ==
            {<<PrintAttr(<<"x">>, 30)>>,
             <<Expr(BoolOp("And", <<Attribute(X, <<"a">>, 30), Attribute(X, <<"b">>, 31)>>))>>,
             <<Expr(BoolOp("Or", <<IsNone, Attribute(X, <<"a">>, 30)>>))>>,
             <<Expr(Subscript(Attribute(X, <<"a">>, 30), Constant("0"), 31))>>,
             <<AssignNone(<<"x">>), PrintAttr(<<"x">>, 30)>>}
        Kinds == {"if", "ifnone", "while", "for", "with", "try", "def", "defnone", "class"}
        Wrap(kind, B, line) ==
            CASE kind = "if" -> <<If(XT(line), B, <<>>)>>
              [] kind = "ifnone" -> <<If(IsNone, B, <<PrintAttr(<<"x">>, line)>>)>>
              [] kind = "while" -> <<While(XT(line), B, <<>>, line + 1)>>
              [] kind = "for" ->
                    <<[t |-> "For", target |-> Name(<<"i">>), iter |-> XT(line), body |-> B]>>
              [] kind = "with" ->
                    <<[t |-> "With",
                       items |-> <<[t |-> "withitem", context_expr |-> XT(line),
                                    optional_vars |-> Name(<<"g">>)]>>,
                       body |-> B]>>
              [] kind = "try" ->
                    <<Try(B, <<ExceptHandler(Name(<<"E">>), <<PrintAttr(<<"x">>, line)>>,
                                             line + 1)>>,
                          <<>>, <<PrintAttr(<<"x">>, line + 2)>>)>>
              [] kind = "def" -> <<FunctionDef(<<"g">>, NoArgs, B, line)>>
              [] kind = "defnone" ->
                    <<FunctionDef(<<"g">>, NoArgs, <<AssignNone(<<"x">>)>> \o B, line)>>
              [] OTHER ->
                    <<[t |-> "ClassDef",
                       body |-> <<FunctionDef(<<"m">>, NoArgs,
                                              <<AssignNone(<<"x">>)>> \o B, line)>>]>>
        Functions ==
            {FunctionDef(<<"f">>, NoArgs,
                         <<AssignNone(<<"x">>)>> \o Wrap(outer, Wrap(inner, leaf, 20), 10), 1) :
                outer \in Kinds, inner \in Kinds, leaf \in Leaves}
    IN  {Module(<<fn>>) : fn \in Functions}
            \cup {Module(<<[t |-> "ClassDef", body |-> <<fn>>]>>) : fn \in Functions}

RuleModules ==
    ModulesB001 \cup ModulesB002 \cup ModulesL001 \cup ModulesN001 \cup ModulesDeref
        \cup ModulesIf \cup ModulesLoop \cup ModulesGuard \cup ModulesNested

InitRules ==
    /\ ast_tree \in RuleModules
    /\ reported = <<>>
    /\ pc = "parsed"
    /\ _rules = ImportedRules
    /\ registered = ImportedRules
    /\ fs \in {f \in FileSystems : f[FileA].kind = "syntaxerror" /\ f[FileB].kind = "ok"}
    /\ yaml_file = Missing
    /\ baseline_file = [exists |-> FALSE, records |-> <<>>]
    /\ args = [path |-> FileA, json_output |-> FALSE,
               generate_baseline |-> FALSE, show_baseline |-> FALSE]
    /\ config = DefaultConfig
    /\ baseline_fingerprints = {}
    /\ engine_manager = FALSE
    /\ files_to_scan = <<>>
    /\ results = <<>>
    /\ consumed = 0
    /\ scan_findings = <<>>
    /\ findings = <<>>
    /\ invoked = {}
    /\ dispatched = {}
    /\ exit_code = 0
    /\ raised = FALSE

Rule_B001 ==
    /\ pc = "parsed"
    /\ reported' = check_mutable_defaults(Context)
    /\ pc' = "B001"
    /\ UNCHANGED <<registered, ast_tree, _rules, fs, yaml_file, baseline_file, args,
                   config, baseline_fingerprints, engine_manager, files_to_scan,
                   results, consumed, scan_findings, findings, invoked, dispatched,
                   exit_code, raised>>

Rule_B002 ==
    /\ pc = "parsed"
    /\ reported' = check_silent_exception(Context)
    /\ pc' = "B002"
    /\ UNCHANGED <<registered, ast_tree, _rules, fs, yaml_file, baseline_file, args,
                   config, baseline_fingerprints, engine_manager, files_to_scan,
                   results, consumed, scan_findings, findings, invoked, dispatched,
                   exit_code, raised>>

Rule_L001 ==
    /\ pc = "parsed"
    /\ reported' = InfiniteLoopRule(Context)
    /\ pc' = "L001"
    /\ UNCHANGED <<registered, ast_tree, _rules, fs, yaml_file, baseline_file, args,
                   config, baseline_fingerprints, engine_manager, files_to_scan,
                   results, consumed, scan_findings, findings, invoked, dispatched,
                   exit_code, raised>>

\* PythonAnalyzer.analyze, lines 23-45, for the registered rule N001: the
\* analyzer calls rule.check_fn(context)
Rule_N001 ==
    /\ pc = "parsed"
    /\ is_rule_enabled(config, "N001")
    /\ \E i \in 1..Len(_rules) :
          /\ _rules[i].id = "N001"
          /\ reported' = RunRule(_rules[i], Context, config).findings
    /\ pc' = "N001"
    /\ UNCHANGED <<registered, ast_tree, _rules, fs, yaml_file, baseline_file, args,
                   config, baseline_fingerprints, engine_manager, files_to_scan,
                   results, consumed, scan_findings, findings, invoked, dispatched,
                   exit_code, raised>>

Rule_L003 ==
    /\ pc = "parsed"
    /\ reported' = UncheckedNoneRule(ast_tree)
    /\ pc' = "L003"
    /\ UNCHANGED <<registered, ast_tree, _rules, fs, yaml_file, baseline_file, args,
                   config, baseline_fingerprints, engine_manager, files_to_scan,
                   results, consumed, scan_findings, findings, invoked, dispatched,
                   exit_code, raised>>

NextRules ==
    \/ Rule_B001
    \/ Rule_B002
    \/ Rule_L001
    \/ Rule_N001
    \/ Rule_L003

SpecRules == InitRules /\ [][NextRules]_vars

\* the number of reported findings of a rule on a line
Count(rule_id, lineno) ==
    Cardinality({k \in 1..Len(reported) :
                    reported[k].rule_id = rule_id /\ reported[k].line = lineno})

Nodes == Range(Walk(ast_tree))

\* the default-value expressions of the parameters of a function definition
DefaultsOf(fn) == Range(fn.args.defaults) \cup Range(Present(fn.args.kw_defaults))

\* C15: B001 emits exactly one finding for each default-value expression that
\* is a literal list, dict or set, for every parameter that has a default
\* (positional, positional-or-keyword and keyword-only) of every function
\* definition in the file, and no finding for any other default.
C15_B001 ==
    pc = "B001" =>
        /\ \A fn \in {n \in Nodes : n.t = "FunctionDef"} :
              \A d \in {x \in DefaultsOf(fn) : IsMutableLiteral(x)} :
                  Count("B001", d.lineno) = 1
        /\ \A k \in 1..Len(reported) :
              \E fn \in {n \in Nodes : n.t = "FunctionDef"} :
                  \E d \in {x \in DefaultsOf(fn) : IsMutableLiteral(x)} :
                      reported[k].line = d.lineno

\* what the code does: exactly the mutable literals in args.defaults, the
\* defaults of the positional parameters, are reported, once each
C15_PositionalDefaults ==
    pc = "B001" =>
        /\ \A fn \in {n \in Nodes : n.t = "FunctionDef"} :
              \A d \in {x \in Range(fn.args.defaults) : IsMutableLiteral(x)} :
                  Count("B001", d.lineno) = 1
        /\ Len(reported) =
              Cardinality({d \in UNION {Range(fn.args.defaults) :
                                           fn \in {n \in Nodes : n.t = "FunctionDef"}} :
                              IsMutableLiteral(d)})

\* def f(a=[], *, k={}) was checked: one finding, for the list
C15_KeywordOnlyCase ==
    /\ pc = "B001"
    /\ ast_tree = Module(<<FunWithDefaults("List", "Dict", 1)>>)
    /\ Len(reported) = 1
    /\ reported[1].line = 2

\* the try bodies the claim exempts: a single Return, Assign, AnnAssign or Expr
SingleSimpleBody(body) ==
    Len(body) = 1 /\ body[1].t \in {"Return", "Assign", "AnnAssign", "Expr"}

\* C16: B002 emits a finding at an except handler exactly when the enclosing
\* try has an empty orelse, the try body is not a single Return, Assign,
\* AnnAssign or Expr, the handler's type is absent or the name Exception, and
\* the handler body is exactly one statement that is pass or the ellipsis
\* constant.
C16_B002 ==
    pc = "B002" =>
        \A try \in {n \in Nodes : n.t = "Try"} :
            \A k \in 1..Len(try.handlers) :
                Count("B002", try.handlers[k].lineno) >= 1
                    <=> /\ try.orelse = <<>>
                        /\ ~SingleSimpleBody(try.body)
                        /\ IsBareOrException(try.handlers[k])
                        /\ IsPassOrEllipsis(try.handlers[k].body)

\* C16 as amended: B002 emits exactly one finding at an except handler whose
\* type is absent or the name Exception and whose body is exactly one
\* statement that is pass or the ellipsis constant, whatever the orelse and
\* body of the enclosing try, and no finding at any other handler.
C16_B002_HandlerAlone ==
    pc = "B002" =>
        /\ \A h \in {n \in Nodes : n.t = "ExceptHandler"} :
              Count("B002", h.lineno) =
                  IF IsBareOrException(h) /\ IsPassOrEllipsis(h.body) THEN 1 ELSE 0
        /\ \A k \in 1..Len(reported) :
              /\ reported[k].rule_id = "B002"
              /\ \E h \in {n \in Nodes : n.t = "ExceptHandler"} : reported[k].line = h.lineno

\* try: do() / except ValueError: pass / except Exception: ... was checked: a
\* finding at the second handler, none at the first
C16_Witness ==
    /\ pc = "B002"
    /\ \E try \in {n \in Nodes : n.t = "Try"} :
          /\ Len(try.handlers) = 2
          /\ SingleSimpleBody(try.body)
          /\ try.handlers[2].type = Name(<<"E","x","c","e","p","t","i","o","n">>)
          /\ try.handlers[2].body = <<Expr(Constant("Ellipsis"))>>
    /\ Count("B002", 6) = 1
    /\ Count("B002", 4) = 0

\* the nodes of the body subtree of a loop
BodySubtree(loop) == UNION {Range(Walk(loop.body[k])) : k \in 1..Len(loop.body)}

TrueOrOne(test) == test.t = "Constant" /\ test.value \in {"True", "1"}

\* C17: L001 emits a finding for every While node of the file, at any nesting
\* depth, whose test is the literal True or the integer 1 and whose body
\* subtree contains no Break, Return, Raise, Yield or YieldFrom, and none for
\* a While whose body subtree contains one of these.
C17_L001 ==
    pc = "L001" =>
        \A loop \in {n \in Nodes : n.t = "While"} :
            LET exits == \E child \in BodySubtree(loop) : child.t \in ExitClasses
            IN  /\ (TrueOrOne(loop.test) /\ ~exits) => Count("L001", loop.lineno) >= 1
                /\ exits => Count("L001", loop.lineno) = 0

\* what the code does: the finding is emitted exactly when the test is such a
\* constant and the whole While node, its else block included, holds no exit
C17_WholeNode ==
    pc = "L001" =>
        \A loop \in {n \in Nodes : n.t = "While"} :
            Count("L001", loop.lineno) =
                IF /\ TrueOrOne(loop.test)
                   /\ ~\E child \in BodySubtree(loop) : child.t \in ExitClasses
                   /\ ~\E k \in 1..Len(loop.orelse) :
                         \E child \in Range(Walk(loop.orelse[k])) : child.t \in ExitClasses
                THEN 1 ELSE 0

\* while True: x = 1 / else: return was checked and got no finding
C17_ElseCase ==
    /\ pc = "L001"
    /\ ast_tree = InFunction(<<While(Constant("True"),
                                     <<Assign(<<Name(<<"x">>)>>, Constant("1"))>>,
                                     <<Return(Absent)>>, 2)>>)
    /\ reported = <<>>

StrLower(s) ==
    [i \in 1..Len(s) |->
        IF \E k \in 1..Len(Upper) : Upper[k] = s[i]
        THEN Lower[CHOOSE k \in 1..Len(Upper) : Upper[k] = s[i]]
        ELSE s[i]]

\* a getter by name
IsGetter(fn) == StartsWith(StrLower(fn.name), <<"g","e","t","_">>)

\* an abstract body: a single pass, or a single docstring-only expression statement
AbstractBody(body) ==
    /\ Len(body) = 1
    /\ \/ body[1].t = "Pass"
       \/ body[1].t = "Expr" /\ body[1].value = Constant("str")

ReturnsValue(fn) ==
    \E child \in Range(Walk(fn)) : child.t = "Return" /\ child.value.t # "Absent"

\* C18: when a file is analyzed through the per-file analyzer with N001
\* enabled, an N001 finding is emitted for every FunctionDef whose lowercased
\* name begins with 'get_', whose body is not abstract and whose subtree holds
\* no Return with a value; a single non-docstring expression statement (a
\* call) is not an abstract body.
C18_N001 ==
    pc = "N001" =>
        \A fn \in {n \in Nodes : n.t = "FunctionDef"} :
            (IsGetter(fn) /\ ~AbstractBody(fn.body) /\ ~ReturnsValue(fn))
                => Count("N001", fn.lineno) >= 1

\* what the code does: N001 run by the analyzer never yields a finding
C18_NeverThroughAnalyzer == pc = "N001" => reported = <<>>

\* def get_x(): x = 1 went through the analyzer with N001 enabled
C18_GetterCase ==
    /\ pc = "N001"
    /\ \E fn \in {n \in Nodes : n.t = "FunctionDef"} :
          /\ fn.name = <<"g","e","t","_","x">>
          /\ fn.body = <<Assign(<<Name(<<"x">>)>>, Constant("1"))>>
    /\ reported = <<>>

\* an attribute access or subscript on the name v, other than v.__attr__
IsDereferenceOf(n, v) ==
    /\ n.t \in {"Attribute", "Subscript"}
    /\ n.value = Name(v)
    /\ n.t = "Attribute" =>
          ~(StartsWith(n.attr, <<"_","_">>) /\ EndsWith(n.attr, <<"_","_">>))

\* C14: L003 reports every dereference of a possibly-null name: for every
\* attribute access v.attr or subscript v[i] whose base name is in D at that
\* point a finding is emitted, whatever the kind of statement it stands in
\* (assignment value or target, annotated assignment, expression statement,
\* return, loop or branch condition, with-item); only v.__attr__ is exempt.
\* In the modules of ModulesDeref, x is in D at the statement on line 3.
C14_L003 ==
    (pc = "L003" /\ ast_tree \in ModulesDeref) =>
        \A n \in Nodes : IsDereferenceOf(n, <<"x">>) => Count("L003", n.lineno) >= 1

\* what the code does: the dereference is reported, once, except where the
\* statement is an assignment or an annotated assignment
C14_NotInAssignments ==
    (pc = "L003" /\ ast_tree \in ModulesDeref) =>
        LET stmt == ast_tree.body[1].body[2]
        IN  Count("L003", 3) =
                IF /\ stmt.t \notin {"Assign", "AnnAssign"}
                   /\ \E n \in Nodes : IsDereferenceOf(n, <<"x">>)
                THEN 1 ELSE 0

\* x = None; y = x.a was scanned without a finding
C14_AssignCase ==
    /\ pc = "L003"
    /\ ast_tree = InFunction(<<AssignNone(<<"x">>),
                               Assign(<<Name(<<"y">>)>>,
                                      Attribute(Name(<<"x">>), <<"a">>, 3))>>)
    /\ reported = <<>>

\* the If statement of a module of ModulesIf, and the names in D before it
TheIf == ast_tree.body[1].body[3]

EntryD == {<<"x">>, <<"z">>}

\* the names in D at the statements after the if: each is dereferenced there,
\* x on line 10, y on line 11, z on line 12
DAfterIf ==
    {v \in {<<"x">>, <<"y">>, <<"z">>} :
        Count("L003", CASE v = <<"x">> -> 10 [] v = <<"y">> -> 11 [] OTHER -> 12) >= 1}

\* `if x is None` or `if not x`
IsNullTestOnX == analyze_guard(TheIf.test) = [found |-> TRUE, var |-> <<"x">>, is_none |-> TRUE]

AssignsNone(stmts, v) == \E k \in 1..Len(stmts) : stmts[k] = AssignNone(v)

\* C19: for `if <x is null>: A [else: B]` with x in D on entry, if A
\* terminates (it has Return, Raise, Break or Continue as a direct statement)
\* then x is not in D for the statements after the if, with or without an
\* else branch, so a dereference of x after the if is not reported unless x is
\* assigned None again.
C19_EarlyExit ==
    (pc = "L003" /\ ast_tree \in ModulesIf) =>
        ((/\ IsNullTestOnX
          /\ block_terminates(TheIf.body)
          /\ ~AssignsNone(TheIf.body, <<"x">>)
          /\ ~AssignsNone(TheIf.orelse, <<"x">>))
            => <<"x">> \notin DAfterIf)

\* what the code does: without an else branch the narrowing holds
C19_WithoutElse ==
    (pc = "L003" /\ ast_tree \in ModulesIf) =>
        ((IsNullTestOnX /\ block_terminates(TheIf.body) /\ TheIf.orelse = <<>>)
            => <<"x">> \notin DAfterIf)

\* if x is None: return / else: pass was scanned, and print(x.a) after it
\* was reported
C19_ElseCase ==
    /\ pc = "L003"
    /\ ast_tree \in ModulesIf
    /\ TheIf = If(Compare(Name(<<"x">>), "Is", Constant("None")),
                  <<Return(Absent)>>, <<Stmt("Pass")>>)
    /\ <<"x">> \in DAfterIf

\* the states in which the claim's transfer enters the two branches
BranchEntry ==
    LET g == analyze_guard(TheIf.test)
    IN  IF g.found /\ g.var \in EntryD
        THEN IF g.is_none
             THEN [body |-> EntryD, orelse |-> EntryD \ {g.var}]
             ELSE [body |-> EntryD \ {g.var}, orelse |-> EntryD]
        ELSE [body |-> EntryD, orelse |-> EntryD]

\* the union of the exit states of the two branches, an absent else exiting
\* with its entry state
ExitUnion ==
    scan_block(TheIf.body, BranchEntry.body).D
        \cup (IF TheIf.orelse = <<>> THEN BranchEntry.orelse
              ELSE scan_block(TheIf.orelse, BranchEntry.orelse).D)

\* C20: after any If statement, whether or not its test is a recognized guard
\* on a name in D and whether or not it has an else branch, the set D used for
\* the following statements is the union of the exit states of the two
\* branches; a name assigned None inside either branch is in D after the if.
\* Stated for the ifs of which neither branch terminates.
C20_PostIfMerge ==
    (pc = "L003" /\ ast_tree \in ModulesIf) =>
        ((~block_terminates(TheIf.body) /\ ~block_terminates(TheIf.orelse))
            => /\ DAfterIf = ExitUnion
               /\ (AssignsNone(TheIf.body, <<"y">>) \/ AssignsNone(TheIf.orelse, <<"y">>))
                     => <<"y">> \in DAfterIf)

\* what the code does: the union is taken when the test is not a guard on a
\* name in D
C20_UnguardedIf ==
    (pc = "L003" /\ ast_tree \in ModulesIf) =>
        ((~analyze_guard(TheIf.test).found \/ analyze_guard(TheIf.test).var \notin EntryD)
            => DAfterIf = ExitUnion)

\* if x is None: y = None, without else, was scanned and print(y.a) after it
\* was not reported
C20_GuardedCase ==
    /\ pc = "L003"
    /\ ast_tree \in ModulesIf
    /\ TheIf = If(Compare(Name(<<"x">>), "Is", Constant("None")),
                  <<AssignNone(<<"y">>)>>, <<>>)
    /\ <<"y">> \notin DAfterIf

\* C21: L003 leaves D unchanged across loops and try statements: for any
\* while loop, for loop or try statement, the set D seen by the statement
\* that follows it is the set D on entry to it, whatever assignments (to None
\* or to other values) occur in its body, handlers, else or finally blocks;
\* inside a for body the loop target names are removed from D.  In the
\* modules of ModulesLoop D is {x, z} on entry; the for body dereferences x
\* on line 5 and z on line 6 before anything else.
C21_LoopsAndTry ==
    (pc = "L003" /\ ast_tree \in ModulesLoop) =>
        LET stmt == ast_tree.body[1].body[3]
            TargetNames ==
                IF stmt.target.t = "Name" THEN {stmt.target.id}
                ELSE {stmt.target.elts[k].id : k \in 1..Len(stmt.target.elts)}
        IN  /\ DAfterIf = EntryD
            /\ stmt.t = "For" =>
                  /\ Count("L003", 5) = (IF <<"x">> \in TargetNames THEN 0 ELSE 1)
                  /\ Count("L003", 6) = (IF <<"z">> \in TargetNames THEN 0 ELSE 1)

\* for x in it: print(x.a); print(z.a); x = 1 was scanned: x.a in the body
\* was not reported, z.a in the body and x.a after the loop were
C21_ForCase ==
    /\ pc = "L003"
    /\ ast_tree \in ModulesLoop
    /\ LET stmt == ast_tree.body[1].body[3]
       IN  /\ stmt.t = "For"
           /\ stmt.target = Name(<<"x">>)
           /\ stmt.body[3] = Assign(<<Name(<<"x">>)>>, Constant("1"))
    /\ Count("L003", 5) = 0
    /\ Count("L003", 6) = 1
    /\ Count("L003", 10) = 1

\* the body of fn begins with a guard of its parameter number i (from 0):
\* an If whose test finds the parameter null and whose branch terminates, or
\* an Assert whose test finds it not null
BeginsWithGuard(fn, i) ==
    LET first == fn.body[1]
        g == analyze_guard(first.test)
    IN  /\ first.t \in {"If", "Assert"}
        /\ g.found
        /\ g.var = fn.args.args[i + 1].arg
        /\ IF first.t = "If" THEN g.is_none /\ block_terminates(first.body)
           ELSE ~g.is_none

\* C22: L003 callee-as-guard.  A function is recorded in the guard table with
\* parameter index i when its body begins with an If whose test establishes
\* that parameter i is null and whose branch terminates, or with an Assert
\* that parameter i is not null.  An expression statement calling a function
\* whose simple name is in the table removes from D the Name argument at the
\* guarded index (the index shifted down by one for a method call obj.f(...))
\* before the call subtree is checked; a call to a function not in the table
\* removes nothing from D.  In the modules of ModulesGuard the call is the
\* third statement of f, D is {x, z} before it, and an argument x.a of the
\* call is on line 3.
C22_CalleeAsGuard ==
    (pc = "L003" /\ ast_tree \in ModulesGuard) =>
        LET chk == ast_tree.body[1]
            call == ast_tree.body[2].body[3].value
            callee == IF call.func.t = "Name" THEN call.func.id ELSE call.func.attr
            shift == IF call.func.t = "Attribute" THEN 1 ELSE 0
            table == infer_guards(ast_tree)
            indices == IF callee \in DOMAIN table THEN table[callee] ELSE {}
            removed ==
                {call.args[i - shift + 1].id :
                    i \in {j \in indices : /\ 0 <= j - shift
                                           /\ j - shift < Len(call.args)
                                           /\ call.args[j - shift + 1].t = "Name"}}
        IN  /\ \A i \in 0..(Len(chk.args.args) - 1) :
                  BeginsWithGuard(chk, i) => (chk.name \in DOMAIN table /\ i \in table[chk.name])
            /\ DAfterIf = EntryD \ removed
            /\ callee \notin DOMAIN table => DAfterIf = EntryD
            /\ Count("L003", 3) =
                  (IF \E k \in 1..Len(call.args) : IsDereferenceOf(call.args[k], <<"x">>)
                      /\ <<"x">> \notin removed
                   THEN 1 ELSE 0)

\* def chk(a, b): if b is None: return, and chk(x.a, x) in f: neither x.a in
\* the call nor x.a after it was reported, z.a after it was
C22_GuardCase ==
    /\ pc = "L003"
    /\ ast_tree \in ModulesGuard
    /\ ast_tree.body[1].body =
          <<If(Compare(Name(<<"b">>), "Is", Constant("None")), <<Return(Absent)>>, <<>>)>>
    /\ ast_tree.body[2].body[3] =
          Expr(Call(Name(<<"c","h","k">>),
                    <<Attribute(Name(<<"x">>), <<"a">>, 3), Name(<<"x">>)>>))
    /\ Count("L003", 3) = 0
    /\ DAfterIf = {<<"z">>}

TaskOf(file) == CHOOSE i \in 1..Len(files_to_scan) : files_to_scan[i] = file

\* what the analyzer returns for each task, in the order of the task list
InTaskOrder ==
    Flatten([i \in 1..Len(files_to_scan) |->
                analyze_file_wrapper(_rules, files_to_scan[i], config).findings])

\* C24: the aggregate returned by scan_path lists the files' finding groups
\* in the order in which the walker enumerated the files (the order of the
\* task list), independent of which worker finishes first: what scan_path
\* returns is determined by the task list, the configuration, the registry
\* and the baseline, so two runs over the same enumeration return the same
\* finding sequence.
C24_TaskOrder ==
    pc \in {"pool", "report"} =>
        /\ \A p, q \in 1..Len(scan_findings) :
              p < q => TaskOf(scan_findings[p].file) <= TaskOf(scan_findings[q].file)
        /\ pc = "report" =>
              findings = ScanResult(engine_manager, baseline_fingerprints, InTaskOrder)

\* the worker of b.py, the second task, finished with findings before the
\* worker of a.py, the first task, whose file has findings too, and the
\* aggregate does not hold those of b.py yet
C24_SecondFirst ==
    /\ pc = "pool"
    /\ Len(files_to_scan) >= 2
    /\ files_to_scan[1] = FileA
    /\ files_to_scan[2] = FileB
    /\ ~results[1].done
    /\ results[2].done
    /\ results[2].findings # <<>>
    /\ analyze_file_wrapper(_rules, files_to_scan[1], config).findings # <<>>
    /\ scan_findings = <<>>

============================================================================
